---- MODULE Spec2Model ----

(***************************************************************************)
(* State-machine model of the ranked-index engine of the horse racing      *)
(* predictor: OptimizedHorseDatabase with its LRUCache and secondary       *)
(* indexes (optimized_hash_table.py), the two AVL trees                    *)
(* (optimized_avl_tree.py, data_structures/avl_tree.py) and the two        *)
(* leaderboards (optimized_leaderboard.py, leaderboard_heap.py).           *)
(* Calls are made one at a time, except in the specifications of two       *)
(* threads, where a call is split at the accesses the locks leave open.    *)
(***************************************************************************)
EXTENDS Integers, Sequences, FiniteSets, TLC

VARIABLES
    \* ---- OptimizedHorseDatabase ----
    db,               \* self.db : horse_id -> record (a Python dict)
    cache,            \* self.cache.cache : OrderedDict, oldest first
    timestamps,       \* self.cache.timestamps : horse_id -> time of the put
    max_size,         \* self.cache.max_size (constructor argument cache_size)
    enable_indexing,  \* self.enable_indexing (constructor argument)
    jockey_index,     \* jockey -> set of horse_ids
    age_index,        \* age -> set of horse_ids
    win_ratio_index,  \* round(wins/races, 2) in hundredths -> set of horse_ids
    now,              \* the value time.time() returns
    latest,           \* history: what the calls so far say each id's record is
    last_used,        \* history: the keys handed to the cache's own get and put,
                      \* in the order of their most recent successful get or put
    \* ---- OptimizedAVLTree / AVLTree ----
    cls,              \* the class of the tree object that was constructed
    root,             \* self.root
    range_cache,      \* self.range_cache : (min_value, max_value) -> result
    cache_valid,      \* self.cache_valid
    last_id_at,       \* history: metric -> horse_id of the latest insert of it
    \* ---- OptimizedLeaderboard / Leaderboard ----
    lb_cls,               \* the class of the leaderboard that was constructed
    heap,                 \* self.heap : list of (time, horse_id)
    entries,              \* self.entries : set of horse_ids
    horse_times,          \* self.horse_times : dict, as its items in order
    cache_top_k,          \* self.cache_top_k (constructor argument)
    cached_top_results,   \* self.cached_top_results : None or a list
    heap_cache_valid,     \* the leaderboard's self.cache_valid
    enable_range_queries, \* self.enable_range_queries (constructor argument)
    sorted_times,         \* self.sorted_times : list of (horse_id, time)
    sorted_valid,         \* self.sorted_valid
    submitted,            \* history: id -> the lowest time submitted since it was added
    \* ---- threads calling into one structure ----
    pc,               \* thread -> where the thread is in the call it is making
    locks,            \* the holder of the structure's self.lock and of the
                      \* cache's self.cache.lock, "none" when free
    local,            \* thread -> the call's arguments, local variables and outcome
    \* ---- the result of the last call ----
    ret

dbvars == <<db, cache, timestamps, max_size, enable_indexing,
            jockey_index, age_index, win_ratio_index, now, latest, last_used>>

treevars == <<cls, root, range_cache, cache_valid, last_id_at>>

boardvars == <<lb_cls, heap, entries, horse_times, cache_top_k, cached_top_results,
               heap_cache_valid, enable_range_queries, sorted_times, sorted_valid,
               submitted>>

threadvars == <<pc, locks, local>>

vars == <<dbvars, treevars, boardvars, threadvars, ret>>

(***************************************************************************)
(* Bounds of the model.                                                    *)
(***************************************************************************)
MaxCacheSize == 2      \* cache_size is drawn from 1..MaxCacheSize
MaxBulk == 2           \* longest list handed to add_horses_bulk
MaxTicks == 1          \* how many times the clock advances

HorseIds == {"H1", "H2"}

\* The records callers hand to add_horse / update_performance.
InputRecords ==
    { <<>>,
      [jockey |-> "Smith"],
      [jockey |-> "Jones", age |-> 4, wins |-> 1, races |-> 2] }

\* The records that appear in the lists handed to add_horses_bulk.
BulkRecords == InputRecords \ {<<>>}

(***************************************************************************)
(* Python dict helpers.                                                    *)
(***************************************************************************)
\* d with key k removed (dict.pop(k, None) / del d[k])
DictDel(d, k) == [x \in DOMAIN d \ {k} |-> d[x]]

\* d with d[k] = v
DictSet(d, k, v) == [x \in DOMAIN d \cup {k} |-> IF x = k THEN v ELSE d[x]]

\* old.update(new) : the fields of new overwrite, the others are kept
DictUpdate(old, new) ==
    [f \in DOMAIN old \cup DOMAIN new |-> IF f \in DOMAIN new THEN new[f] ELSE old[f]]

\* truthiness of a dict: an empty dict is falsy
Truthy(d) == DOMAIN d # {}

(***************************************************************************)
(* LRUCache.  A cache state c is [cache |-> <<[key, value], ...>>,         *)
(* timestamps |-> key -> time]; the sequence is the OrderedDict's order.   *)
(***************************************************************************)
ttl_seconds == 300

CacheKeys(cseq) == {cseq[i].key : i \in 1..Len(cseq)}

CacheValue(cseq, k) == (CHOOSE i \in 1..Len(cseq) : cseq[i].key = k)

RECURSIVE WithoutKey(_, _)
WithoutKey(cseq, k) ==
    IF cseq = <<>> THEN <<>>
    ELSE IF Head(cseq).key = k THEN WithoutKey(Tail(cseq), k)
    ELSE <<Head(cseq)>> \o WithoutKey(Tail(cseq), k)

\* LRUCache._remove
LRUCache_remove(c, k) ==
    [cache |-> WithoutKey(c.cache, k), timestamps |-> DictDel(c.timestamps, k)]

\* OrderedDict.move_to_end
move_to_end(cseq, k) ==
    WithoutKey(cseq, k) \o <<cseq[CacheValue(cseq, k)]>>

\* LRUCache.put at time t
LRUCache_put(c, k, value, t, max) ==
    LET c1 == IF k \in CacheKeys(c.cache)
              THEN [c EXCEPT !.cache = move_to_end(c.cache, k)]
              ELSE IF Len(c.cache) >= max
                   THEN LRUCache_remove(c, c.cache[1].key)
                   ELSE c
    IN [cache |-> WithoutKey(c1.cache, k) \o <<[key |-> k, value |-> value]>>,
        timestamps |-> DictSet(c1.timestamps, k, t)]

\* LRUCache.get that never looks at the age of an entry
LRUCache_get_NoTTL(c, k, t) ==
    IF k \notin CacheKeys(c.cache)
    THEN [c |-> c, none |-> TRUE, value |-> <<>>]
    ELSE [c |-> [c EXCEPT !.cache = move_to_end(c.cache, k)],
          none |-> FALSE,
          value |-> c.cache[CacheValue(c.cache, k)].value]

\* LRUCache.get that leaves a key it finds where it is
LRUCache_get_NoMove(c, k, t) ==
    IF k \notin CacheKeys(c.cache)
    THEN [c |-> c, none |-> TRUE, value |-> <<>>]
    ELSE IF t - c.timestamps[k] > ttl_seconds
    THEN [c |-> LRUCache_remove(c, k), none |-> TRUE, value |-> <<>>]
    ELSE [c |-> c,
          none |-> FALSE,
          value |-> c.cache[CacheValue(c.cache, k)].value]

\* LRUCache.get at time t : [c |-> the cache afterwards, none, value]
LRUCache_get(c, k, t) ==
    IF k \notin CacheKeys(c.cache)
    THEN [c |-> c, none |-> TRUE, value |-> <<>>]
    ELSE IF t - c.timestamps[k] > ttl_seconds
    THEN [c |-> LRUCache_remove(c, k), none |-> TRUE, value |-> <<>>]
    ELSE [c |-> [c EXCEPT !.cache = move_to_end(c.cache, k)],
          none |-> FALSE,
          value |-> c.cache[CacheValue(c.cache, k)].value]

(***************************************************************************)
(* Secondary indexes.  An index is a dict value -> set of horse_ids.       *)
(***************************************************************************)
\* an add that toggles membership: adding a member a second time removes it
IndexAdd_Toggle(index, v, horse_id) ==
    IF v \in DOMAIN index
    THEN [index EXCEPT ![v] = (@ \ {horse_id}) \cup ({horse_id} \ @)]
    ELSE DictSet(index, v, {horse_id})

IndexAdd(index, v, horse_id) ==
    IF v \in DOMAIN index
    THEN [index EXCEPT ![v] = @ \cup {horse_id}]
    ELSE DictSet(index, v, {horse_id})

IndexDiscard(index, v, horse_id) ==
    IF v \in DOMAIN index
    THEN IF index[v] \ {horse_id} = {}
         THEN DictDel(index, v)
         ELSE [index EXCEPT ![v] = @ \ {horse_id}]
    ELSE index

\* round(wins / races, 2), in hundredths, ties to even
Round2(wins, races) ==
    LET n == 100 * wins
        q == n \div races
        r == n % races
    IN IF 2 * r > races THEN q + 1
       ELSE IF 2 * r < races THEN q
       ELSE IF q % 2 = 0 THEN q ELSE q + 1

HasRatio(data) ==
    /\ "wins" \in DOMAIN data
    /\ "races" \in DOMAIN data
    /\ data["races"] > 0

\* A store state S is the record of db, cache (an LRUCache state) and the
\* three indexes.

\* OptimizedHorseDatabase._update_indexes
update_indexes(S, horse_id, data) ==
    [S EXCEPT
        !.jockey_index = IF "jockey" \in DOMAIN data
                         THEN IndexAdd(@, data["jockey"], horse_id) ELSE @,
        !.age_index = IF "age" \in DOMAIN data
                      THEN IndexAdd(@, data["age"], horse_id) ELSE @,
        !.win_ratio_index = IF HasRatio(data)
                            THEN IndexAdd(@, Round2(data["wins"], data["races"]), horse_id)
                            ELSE @]

\* OptimizedHorseDatabase._remove_from_indexes
remove_from_indexes(S, horse_id, data) ==
    [S EXCEPT
        !.jockey_index = IF "jockey" \in DOMAIN data
                         THEN IndexDiscard(@, data["jockey"], horse_id) ELSE @,
        !.age_index = IF "age" \in DOMAIN data
                      THEN IndexDiscard(@, data["age"], horse_id) ELSE @,
        !.win_ratio_index = IF HasRatio(data)
                            THEN IndexDiscard(@, Round2(data["wins"], data["races"]), horse_id)
                            ELSE @]

\* the body of add_horse under the lock; also the loop body of add_horses_bulk
StoreOne(S, horse_id, data, t, max, indexing) ==
    LET S1 == [S EXCEPT !.db = DictSet(@, horse_id, data),
                        !.c = LRUCache_put(@, horse_id, data, t, max)]
    IN IF indexing THEN update_indexes(S1, horse_id, data) ELSE S1

RECURSIVE StoreAll(_, _, _, _, _)
StoreAll(S, horses, t, max, indexing) ==
    IF horses = <<>> THEN S
    ELSE StoreAll(StoreOne(S, Head(horses)[1], Head(horses)[2], t, max, indexing),
                  Tail(horses), t, max, indexing)

\* update_performance that writes the database and leaves the cache entry alone
UpdateOne_StaleCache(S, horse_id, new_data, t, max, indexing) ==
    LET old_data == S.db[horse_id]
        updated_data == DictUpdate(S.db[horse_id], new_data)
        S1 == [S EXCEPT !.db = DictSet(@, horse_id, updated_data)]
    IN IF indexing /\ Truthy(old_data)
       THEN update_indexes(remove_from_indexes(S1, horse_id, old_data),
                           horse_id, updated_data)
       ELSE S1

\* the body of update_performance under the lock, for horse_id in db
UpdateOne(S, horse_id, new_data, t, max, indexing) ==
    LET old_data == S.db[horse_id]
        updated_data == DictUpdate(S.db[horse_id], new_data)
        S1 == [S EXCEPT !.db = DictSet(@, horse_id, updated_data),
                        !.c = LRUCache_put(@, horse_id, updated_data, t, max)]
    IN IF indexing /\ Truthy(old_data)
       THEN update_indexes(remove_from_indexes(S1, horse_id, old_data),
                           horse_id, updated_data)
       ELSE S1

\* remove_horse that deletes from db and leaves the cache entry in place
RemoveOne_KeepCache(S, horse_id, indexing) ==
    LET old_data == S.db[horse_id]
        S1 == [S EXCEPT !.db = DictDel(@, horse_id)]
    IN IF indexing THEN remove_from_indexes(S1, horse_id, old_data) ELSE S1

\* the body of remove_horse under the lock, for horse_id in db
RemoveOne(S, horse_id, indexing) ==
    LET old_data == S.db[horse_id]
        S1 == [S EXCEPT !.db = DictDel(@, horse_id),
                        !.c = LRUCache_remove(@, horse_id)]
    IN IF indexing THEN remove_from_indexes(S1, horse_id, old_data) ELSE S1

Store == [db |-> db,
          c |-> [cache |-> cache, timestamps |-> timestamps],
          jockey_index |-> jockey_index,
          age_index |-> age_index,
          win_ratio_index |-> win_ratio_index]

SetStore(S) ==
    /\ db' = S.db
    /\ cache' = S.c.cache
    /\ timestamps' = S.c.timestamps
    /\ jockey_index' = S.jockey_index
    /\ age_index' = S.age_index
    /\ win_ratio_index' = S.win_ratio_index

NoValue == <<>>

\* the threads that call into a structure, and a thread's locals between calls
Threads == {"t1", "t2"}

NoLocal == <<>>

\* what the last call was and what it returned: ok is a boolean result, none
\* says the call returned None, hit that it was answered from a cache
Ret(op, args, ok, none, hit, value) ==
    [op |-> op, args |-> args, ok |-> ok, none |-> none, hit |-> hit, value |-> value]

(***************************************************************************)
(* The public operations of OptimizedHorseDatabase.                        *)
(***************************************************************************)
\* OptimizedHorseDatabase(cache_size, enable_indexing), the flag drawn from flags
InitDB(flags) ==
    /\ db = <<>>
    /\ cache = <<>>
    /\ timestamps = <<>>
    /\ max_size \in 1..MaxCacheSize
    /\ enable_indexing \in flags
    /\ jockey_index = <<>>
    /\ age_index = <<>>
    /\ win_ratio_index = <<>>
    /\ now = 0
    /\ latest = <<>>
    /\ last_used = <<>>

\* the last component of args says that the call repeats the call before it
add_horse ==
    \E horse_id \in HorseIds, data \in InputRecords :
        /\ SetStore(StoreOne(Store, horse_id, data, now, max_size, enable_indexing))
        /\ latest' = [h \in DOMAIN latest \cup {horse_id} |->
                        IF h = horse_id THEN data ELSE latest[h]]
        /\ ret' = Ret("add_horse",
                      <<horse_id, data,
                        ret.op = "add_horse" /\ ret.args[1] = horse_id
                                             /\ ret.args[2] = data>>,
                      TRUE, TRUE, FALSE, NoValue)
        /\ UNCHANGED <<max_size, enable_indexing, now, treevars, boardvars, last_used,
                       threadvars>>

BulkLists == UNION {[1..n -> HorseIds \X BulkRecords] : n \in 0..MaxBulk}

RECURSIVE LatestAfter(_, _)
LatestAfter(l, horses) ==
    IF horses = <<>> THEN l
    ELSE LatestAfter([h \in DOMAIN l \cup {Head(horses)[1]} |->
                        IF h = Head(horses)[1] THEN Head(horses)[2] ELSE l[h]],
                     Tail(horses))

add_horses_bulk ==
    \E horses \in BulkLists :
        /\ SetStore(StoreAll(Store, horses, now, max_size, enable_indexing))
        /\ latest' = LatestAfter(latest, horses)
        /\ ret' = Ret("add_horses_bulk", <<>>, TRUE, TRUE, FALSE, NoValue)
        /\ UNCHANGED <<max_size, enable_indexing, now, treevars, boardvars, last_used,
                       threadvars>>

get_horse ==
    \E horse_id \in HorseIds :
        LET g == LRUCache_get([cache |-> cache, timestamps |-> timestamps], horse_id, now)
        IN /\ IF ~g.none
              THEN \* cache hit
                   /\ cache' = g.c.cache
                   /\ timestamps' = g.c.timestamps
                   /\ ret' = Ret("get_horse", <<horse_id>>, TRUE, FALSE, TRUE, g.value)
              ELSE IF horse_id \in DOMAIN db
              THEN \* cache miss, read from the database and cache the copy
                   LET c2 == LRUCache_put(g.c, horse_id, db[horse_id], now, max_size)
                   IN /\ cache' = c2.cache
                      /\ timestamps' = c2.timestamps
                      /\ ret' = Ret("get_horse", <<horse_id>>, TRUE, FALSE, FALSE, db[horse_id])
              ELSE /\ cache' = g.c.cache
                   /\ timestamps' = g.c.timestamps
                   /\ ret' = Ret("get_horse", <<horse_id>>, FALSE, TRUE, FALSE, NoValue)
           /\ UNCHANGED <<db, max_size, enable_indexing, jockey_index, age_index,
                          win_ratio_index, now, latest, treevars, boardvars, last_used,
                          threadvars>>

\* the caller changes fields of the dict the last get_horse returned.  On a
\* hit the dict is cached_result.copy(), an object of the caller's own; on a
\* miss it is result_copy, the object that was put into the cache.
mutate_returned ==
    /\ ret.op = "get_horse"
    /\ ~ret.none
    /\ \E new_data \in InputRecords :
           LET horse_id == ret.args[1]
               mutated == DictUpdate(ret.value, new_data)
           IN /\ mutated # ret.value
              /\ cache' = IF ret.hit THEN cache
                          ELSE [i \in 1..Len(cache) |->
                                   IF cache[i].key = horse_id
                                   THEN [cache[i] EXCEPT !.value = mutated]
                                   ELSE cache[i]]
              /\ ret' = Ret("mutate_returned", <<horse_id>>, TRUE, TRUE, ret.hit, mutated)
    /\ UNCHANGED <<db, timestamps, max_size, enable_indexing, jockey_index, age_index,
                   win_ratio_index, now, latest, treevars, boardvars, last_used,
                   threadvars>>

\* an update_performance that creates the record of an id that is not in db
update_performance_Upsert ==
    \E horse_id \in HorseIds, new_data \in InputRecords :
        /\ IF horse_id \notin DOMAIN db
           THEN /\ SetStore(StoreOne(Store, horse_id, new_data, now, max_size,
                                     enable_indexing))
                /\ ret' = Ret("update_performance", <<horse_id>>, TRUE, TRUE, FALSE, NoValue)
           ELSE /\ SetStore(UpdateOne(Store, horse_id, new_data, now, max_size,
                                      enable_indexing))
                /\ ret' = Ret("update_performance", <<horse_id>>, TRUE, TRUE, FALSE, NoValue)
        /\ latest' = IF horse_id \in DOMAIN latest
                     THEN [latest EXCEPT ![horse_id] =
                             [f \in DOMAIN @ \cup DOMAIN new_data |->
                                 IF f \in DOMAIN new_data THEN new_data[f] ELSE @[f]]]
                     ELSE latest
        /\ UNCHANGED <<max_size, enable_indexing, now, treevars, boardvars, last_used,
                       threadvars>>

\* HorseDatabase.update_performance, on the dict d
HorseDatabase_update_performance(d, horse_id, new_data) ==
    IF horse_id \in DOMAIN d
    THEN DictSet(d, horse_id, DictUpdate(d[horse_id], new_data))
    ELSE d

update_performance ==
    \E horse_id \in HorseIds, new_data \in InputRecords :
        /\ IF horse_id \notin DOMAIN db
           THEN /\ ret' = Ret("update_performance", <<horse_id>>, FALSE, TRUE, FALSE, NoValue)
                /\ UNCHANGED <<db, cache, timestamps, jockey_index, age_index,
                               win_ratio_index>>
           ELSE /\ SetStore(UpdateOne(Store, horse_id, new_data, now, max_size,
                                      enable_indexing))
                /\ ret' = Ret("update_performance", <<horse_id>>, TRUE, TRUE, FALSE, NoValue)
        /\ latest' = IF horse_id \in DOMAIN latest
                     THEN [latest EXCEPT ![horse_id] =
                             [f \in DOMAIN @ \cup DOMAIN new_data |->
                                 IF f \in DOMAIN new_data THEN new_data[f] ELSE @[f]]]
                     ELSE latest
        /\ UNCHANGED <<max_size, enable_indexing, now, treevars, boardvars, last_used,
                       threadvars>>

remove_horse ==
    \E horse_id \in HorseIds :
        /\ IF horse_id \notin DOMAIN db
           THEN /\ ret' = Ret("remove_horse", <<horse_id>>, FALSE, TRUE, FALSE, NoValue)
                /\ UNCHANGED <<db, cache, timestamps, jockey_index, age_index,
                               win_ratio_index>>
           ELSE /\ SetStore(RemoveOne(Store, horse_id, enable_indexing))
                /\ ret' = Ret("remove_horse", <<horse_id>>, TRUE, TRUE, FALSE, NoValue)
        /\ latest' = [h \in DOMAIN latest \ {horse_id} |-> latest[h]]
        /\ UNCHANGED <<max_size, enable_indexing, now, treevars, boardvars, last_used,
                       threadvars>>

\* time.time() advances between calls
Tick ==
    \E step \in {ttl_seconds, ttl_seconds + 1} :
        /\ now < MaxTicks * ttl_seconds
        /\ now' = now + step
        /\ UNCHANGED <<db, cache, timestamps, max_size, enable_indexing, jockey_index,
                       age_index, win_ratio_index, latest, ret, treevars, boardvars, last_used,
                       threadvars>>

\* find_horses_by_jockey / find_horses_by_age, as sets of ids
find_horses_by_jockey(jockey) ==
    IF ~enable_indexing
    THEN {hid \in DOMAIN db : "jockey" \in DOMAIN db[hid] /\ db[hid]["jockey"] = jockey}
    ELSE IF jockey \in DOMAIN jockey_index THEN jockey_index[jockey] ELSE {}

find_horses_by_age(age) ==
    IF ~enable_indexing
    THEN {hid \in DOMAIN db : "age" \in DOMAIN db[hid] /\ db[hid]["age"] = age}
    ELSE IF age \in DOMAIN age_index THEN age_index[age] ELSE {}

(***************************************************************************)
(* The LRUCache object on its own: get and put called directly.            *)
(***************************************************************************)
\* the keys and the values the cache is called with
LRUKeys == {"H1", "H2", "H3"}

LRUValues == BulkRecords

\* the history after a successful get or a put of k
Touch(lu, k) == SelectSeq(lu, LAMBDA x : x # k) \o <<k>>

\* LRUCache.put
Cache_put ==
    \E key \in LRUKeys, value \in LRUValues :
        LET c == LRUCache_put([cache |-> cache, timestamps |-> timestamps],
                              key, value, now, max_size)
        IN /\ cache' = c.cache
           /\ timestamps' = c.timestamps
           /\ last_used' = Touch(last_used, key)
           /\ ret' = Ret("put", <<key>>, TRUE, TRUE, FALSE, NoValue)
           /\ UNCHANGED <<db, max_size, enable_indexing, jockey_index, age_index,
                          win_ratio_index, now, latest, treevars, boardvars, threadvars>>

\* LRUCache.get
Cache_get ==
    \E key \in LRUKeys :
        LET g == LRUCache_get([cache |-> cache, timestamps |-> timestamps], key, now)
        IN /\ cache' = g.c.cache
           /\ timestamps' = g.c.timestamps
           /\ last_used' = IF g.none THEN last_used ELSE Touch(last_used, key)
           /\ ret' = Ret("get", <<key>>, TRUE, g.none, ~g.none, g.value)
           /\ UNCHANGED <<db, max_size, enable_indexing, jockey_index, age_index,
                          win_ratio_index, now, latest, treevars, boardvars, threadvars>>

(***************************************************************************)
(* AVL trees.  A node is [value, horse_id, left, right, height]; None is   *)
(* the absent child.                                                       *)
(***************************************************************************)
MaxMetric == 5         \* metrics are drawn from 1..MaxMetric
MaxBulkItems == 2      \* longest list handed to insert_bulk

Metrics == 1..MaxMetric

None == <<>>

Max(a, b) == IF a >= b THEN a ELSE b

AVLNode(value, horse_id) ==
    [value |-> value, horse_id |-> horse_id, left |-> None, right |-> None, height |-> 1]

\* ---- OptimizedAVLTree ----
Opt_get_height(node) == IF node = None THEN 0 ELSE node.height

Opt_get_balance(node) ==
    IF node = None THEN 0 ELSE Opt_get_height(node.left) - Opt_get_height(node.right)

Opt_left_rotate(z) ==
    LET y == z.right
        T2 == y.left
        z1 == [z EXCEPT !.right = T2,
                        !.height = 1 + Max(Opt_get_height(z.left), Opt_get_height(T2))]
    IN [y EXCEPT !.left = z1,
                 !.height = 1 + Max(Opt_get_height(z1), Opt_get_height(y.right))]

Opt_right_rotate(z) ==
    LET y == z.left
        T3 == y.right
        z1 == [z EXCEPT !.left = T3,
                        !.height = 1 + Max(Opt_get_height(T3), Opt_get_height(z.right))]
    IN [y EXCEPT !.right = z1,
                 !.height = 1 + Max(Opt_get_height(y.left), Opt_get_height(z1))]

\* _insert_node's rotation cases with the two double rotations left out
Opt_rebalance_SingleOnly(node, value) ==
    LET balance == Opt_get_balance(node)
    IN IF balance > 1 /\ value < node.left.value THEN Opt_right_rotate(node)
       ELSE IF balance < -1 /\ value > node.right.value THEN Opt_left_rotate(node)
       ELSE node

\* the rotation cases of _insert_node, for a node whose height is up to date
Opt_rebalance(node, value) ==
    LET balance == Opt_get_balance(node)
    IN IF balance > 1 /\ value < node.left.value THEN Opt_right_rotate(node)
       ELSE IF balance < -1 /\ value > node.right.value THEN Opt_left_rotate(node)
       ELSE IF balance > 1 /\ value > node.left.value
            THEN Opt_right_rotate([node EXCEPT !.left = Opt_left_rotate(node.left)])
       ELSE IF balance < -1 /\ value < node.right.value
            THEN Opt_left_rotate([node EXCEPT !.right = Opt_right_rotate(node.right)])
       ELSE node

RECURSIVE Opt_insert_node(_, _, _)
Opt_insert_node(node, value, horse_id) ==
    IF node = None THEN AVLNode(value, horse_id)
    ELSE IF value < node.value
    THEN LET l == Opt_insert_node(node.left, value, horse_id)
             n1 == [node EXCEPT !.left = l,
                                !.height = 1 + Max(Opt_get_height(l),
                                                   Opt_get_height(node.right))]
         IN Opt_rebalance(n1, value)
    ELSE IF value > node.value
    THEN LET r == Opt_insert_node(node.right, value, horse_id)
             n1 == [node EXCEPT !.right = r,
                                !.height = 1 + Max(Opt_get_height(node.left),
                                                   Opt_get_height(r))]
         IN Opt_rebalance(n1, value)
    ELSE [node EXCEPT !.horse_id = horse_id]

\* a sort that puts an item before the items of equal value: not stable
RECURSIVE InsertSorted_Unstable(_, _)
InsertSorted_Unstable(sorted, item) ==
    IF sorted = <<>> THEN <<item>>
    ELSE IF item[2] <= Head(sorted)[2] THEN <<item>> \o sorted
    ELSE <<Head(sorted)>> \o InsertSorted_Unstable(Tail(sorted), item)

\* sorted(items, key=lambda x: x[1]) : a stable sort by value
RECURSIVE InsertSorted(_, _)
InsertSorted(sorted, item) ==
    IF sorted = <<>> THEN <<item>>
    ELSE IF item[2] < Head(sorted)[2] THEN <<item>> \o sorted
    ELSE <<Head(sorted)>> \o InsertSorted(Tail(sorted), item)

RECURSIVE SortByValue(_)
SortByValue(items) ==
    IF items = <<>> THEN <<>>
    ELSE InsertSorted(SortByValue(SubSeq(items, 1, Len(items) - 1)), items[Len(items)])

RECURSIVE Opt_insert_all(_, _)
Opt_insert_all(node, sorted_items) ==
    IF sorted_items = <<>> THEN node
    ELSE Opt_insert_all(Opt_insert_node(node, Head(sorted_items)[2], Head(sorted_items)[1]),
                        Tail(sorted_items))

\* _range_query with the two pruning tests exchanged
RECURSIVE Opt_range_query_SwappedPrune(_, _, _)
Opt_range_query_SwappedPrune(node, min_val, max_val) ==
    IF node = None THEN <<>>
    ELSE (IF min_val <= node.value /\ node.value <= max_val
          THEN << <<node.horse_id, node.value>> >> ELSE <<>>)
         \o (IF node.value < max_val
             THEN Opt_range_query_SwappedPrune(node.left, min_val, max_val) ELSE <<>>)
         \o (IF node.value > min_val
             THEN Opt_range_query_SwappedPrune(node.right, min_val, max_val) ELSE <<>>)

\* a range query that takes a node when either bound admits it
RECURSIVE Opt_range_query_EitherBound(_, _, _)
Opt_range_query_EitherBound(node, min_val, max_val) ==
    IF node = None THEN <<>>
    ELSE (IF min_val <= node.value \/ node.value <= max_val
          THEN << <<node.horse_id, node.value>> >> ELSE <<>>)
         \o (IF node.value > min_val
             THEN Opt_range_query_EitherBound(node.left, min_val, max_val) ELSE <<>>)
         \o (IF node.value < max_val
             THEN Opt_range_query_EitherBound(node.right, min_val, max_val) ELSE <<>>)

RECURSIVE Opt_range_query(_, _, _)
Opt_range_query(node, min_val, max_val) ==
    IF node = None THEN <<>>
    ELSE (IF min_val <= node.value /\ node.value <= max_val
          THEN << <<node.horse_id, node.value>> >> ELSE <<>>)
         \o (IF node.value > min_val
             THEN Opt_range_query(node.left, min_val, max_val) ELSE <<>>)
         \o (IF node.value < max_val
             THEN Opt_range_query(node.right, min_val, max_val) ELSE <<>>)

RECURSIVE Opt_inorder_traversal(_)
Opt_inorder_traversal(node) ==
    IF node = None THEN <<>>
    ELSE Opt_inorder_traversal(node.left) \o <<node>> \o Opt_inorder_traversal(node.right)

\* get_kth_smallest that forgets to convert k to a 0-based index
Opt_kth_ZeroBased(node, k) ==
    IF k <= 0 THEN [none |-> TRUE, value |-> NoValue]
    ELSE LET result == Opt_inorder_traversal(node)
         IN IF k < Len(result)
            THEN [none |-> FALSE, value |-> <<result[k + 1].horse_id, result[k + 1].value>>]
            ELSE [none |-> TRUE, value |-> NoValue]

\* get_kth_smallest : [none, value]
Opt_kth(node, k) ==
    IF k <= 0 THEN [none |-> TRUE, value |-> NoValue]
    ELSE LET result == Opt_inorder_traversal(node)
         IN IF k <= Len(result)
            THEN [none |-> FALSE, value |-> <<result[k].horse_id, result[k].value>>]
            ELSE [none |-> TRUE, value |-> NoValue]

\* _count_nodes
RECURSIVE Opt_count_nodes(_)
Opt_count_nodes(node) ==
    IF node = None THEN 0
    ELSE 1 + Opt_count_nodes(node.left) + Opt_count_nodes(node.right)

\* _count_less_than that leaves out the left subtree of a smaller node
RECURSIVE Opt_count_less_than_NoLeft(_, _)
Opt_count_less_than_NoLeft(node, value) ==
    IF node = None THEN 0
    ELSE IF node.value < value
    THEN 1 + Opt_count_less_than_NoLeft(node.right, value)
    ELSE Opt_count_less_than_NoLeft(node.left, value)

\* _count_less_than
RECURSIVE Opt_count_less_than(_, _)
Opt_count_less_than(node, value) ==
    IF node = None THEN 0
    ELSE IF node.value < value
    THEN 1 + Opt_count_nodes(node.left) + Opt_count_less_than(node.right, value)
    ELSE Opt_count_less_than(node.left, value)

\* ---- AVLTree ----
AVL_get_height(node) == IF node = None THEN 0 ELSE node.height

AVL_get_balance(node) ==
    IF node = None THEN 0 ELSE AVL_get_height(node.left) - AVL_get_height(node.right)

\* a right rotation that hangs y on the wrong side of x
AVL_rotate_right_WrongSide(y) ==
    LET x == y.left
        t2 == x.right
        y1 == [y EXCEPT !.left = t2,
                        !.height = 1 + Max(AVL_get_height(t2), AVL_get_height(y.right))]
    IN [x EXCEPT !.left = y1, !.right = x.left,
                 !.height = 1 + Max(AVL_get_height(x.left), AVL_get_height(y1))]

AVL_rotate_right(y) ==
    LET x == y.left
        t2 == x.right
        y1 == [y EXCEPT !.left = t2,
                        !.height = 1 + Max(AVL_get_height(t2), AVL_get_height(y.right))]
    IN [x EXCEPT !.right = y1,
                 !.height = 1 + Max(AVL_get_height(x.left), AVL_get_height(y1))]

AVL_rotate_left(x) ==
    LET y == x.right
        t2 == y.left
        x1 == [x EXCEPT !.right = t2,
                        !.height = 1 + Max(AVL_get_height(x.left), AVL_get_height(t2))]
    IN [y EXCEPT !.left = x1,
                 !.height = 1 + Max(AVL_get_height(x1), AVL_get_height(y.right))]

AVL_balance(node) ==
    LET balance == AVL_get_balance(node)
    IN IF balance > 1
       THEN IF AVL_get_balance(node.left) < 0
            THEN AVL_rotate_right([node EXCEPT !.left = AVL_rotate_left(node.left)])
            ELSE AVL_rotate_right(node)
       ELSE IF balance < -1
       THEN IF AVL_get_balance(node.right) > 0
            THEN AVL_rotate_left([node EXCEPT !.right = AVL_rotate_right(node.right)])
            ELSE AVL_rotate_left(node)
       ELSE node

RECURSIVE AVL_insert_node(_, _, _)
AVL_insert_node(node, horse_id, win_ratio) ==
    IF node = None THEN AVLNode(win_ratio, horse_id)
    ELSE IF win_ratio < node.value
    THEN LET l == AVL_insert_node(node.left, horse_id, win_ratio)
         IN AVL_balance([node EXCEPT !.left = l,
                                     !.height = 1 + Max(AVL_get_height(l),
                                                        AVL_get_height(node.right))])
    ELSE IF win_ratio > node.value
    THEN LET r == AVL_insert_node(node.right, horse_id, win_ratio)
         IN AVL_balance([node EXCEPT !.right = r,
                                     !.height = 1 + Max(AVL_get_height(node.left),
                                                        AVL_get_height(r))])
    ELSE [node EXCEPT !.horse_id = horse_id]

RECURSIVE AVL_range_search(_, _, _)
AVL_range_search(node, min_ratio, max_ratio) ==
    IF node = None THEN <<>>
    ELSE (IF min_ratio <= node.value /\ node.value <= max_ratio
          THEN << <<node.horse_id, node.value>> >> ELSE <<>>)
         \o (IF min_ratio < node.value
             THEN AVL_range_search(node.left, min_ratio, max_ratio) ELSE <<>>)
         \o (IF max_ratio > node.value
             THEN AVL_range_search(node.right, min_ratio, max_ratio) ELSE <<>>)

RECURSIVE AVL_inorder_traversal(_)
AVL_inorder_traversal(node) ==
    IF node = None THEN <<>>
    ELSE AVL_inorder_traversal(node.left)
         \o << <<node.horse_id, node.value>> >>
         \o AVL_inorder_traversal(node.right)

(***************************************************************************)
(* The public operations of the trees.                                     *)
(***************************************************************************)
\* the (horse_id, value) pairs the trees are fed: H1 at every metric, and H2
\* competing with it at the two lowest ones
InsertArgs == {a \in HorseIds \X Metrics : a[1] = "H1" \/ a[2] <= 2}

\* the pairs that appear in the lists handed to insert_bulk
BulkPairs == {<<"H1", 1>>, <<"H2", 1>>, <<"H1", 2>>}

BulkItems == UNION {[1..n -> BulkPairs] : n \in 0..MaxBulkItems}

\* the ranges get_range is called with; the second one has min > max
RangeArgs == {<<2, 3>>, <<4, 2>>}

\* the values get_rank is called with: below every metric, a metric, and
\* above every metric
RankArgs == {1, 4, MaxMetric + 1}

InitTree(classes) ==
    /\ cls \in classes
    /\ root = None
    /\ range_cache = <<>>
    /\ cache_valid = FALSE
    /\ last_id_at = <<>>

RECURSIVE LastIdAfter(_, _)
LastIdAfter(l, items) ==
    IF items = <<>> THEN l
    ELSE LastIdAfter([v \in DOMAIN l \cup {Head(items)[2]} |->
                        IF v = Head(items)[2] THEN Head(items)[1] ELSE l[v]],
                     Tail(items))

\* an insert that leaves range_cache and cache_valid as they are
Opt_insert_KeepCache ==
    \E horse_id \in HorseIds, value \in Metrics :
        /\ <<horse_id, value>> \in InsertArgs
        /\ cls = "OptimizedAVLTree"
        /\ root' = Opt_insert_node(root, value, horse_id)
        /\ last_id_at' = LastIdAfter(last_id_at, << <<horse_id, value>> >>)
        /\ ret' = Ret("insert", <<horse_id, value>>, TRUE, TRUE, FALSE, NoValue)
        /\ UNCHANGED <<cls, range_cache, cache_valid, dbvars, boardvars, threadvars>>

\* OptimizedAVLTree.insert
Opt_insert ==
    \E horse_id \in HorseIds, value \in Metrics :
        /\ <<horse_id, value>> \in InsertArgs
        /\ cls = "OptimizedAVLTree"
        /\ root' = Opt_insert_node(root, value, horse_id)
        /\ range_cache' = <<>>
        /\ cache_valid' = FALSE
        /\ last_id_at' = LastIdAfter(last_id_at, << <<horse_id, value>> >>)
        /\ ret' = Ret("insert", <<horse_id, value>>, TRUE, TRUE, FALSE, NoValue)
        /\ UNCHANGED <<cls, dbvars, boardvars, threadvars>>

\* OptimizedAVLTree.insert_bulk
Opt_insert_bulk ==
    \E items \in BulkItems :
        /\ cls = "OptimizedAVLTree"
        /\ root' = Opt_insert_all(root, SortByValue(items))
        /\ range_cache' = <<>>
        /\ cache_valid' = FALSE
        /\ last_id_at' = LastIdAfter(last_id_at, items)
        /\ ret' = Ret("insert_bulk", <<Len(items)>>, TRUE, TRUE, FALSE, NoValue)
        /\ UNCHANGED <<cls, dbvars, boardvars, threadvars>>

\* OptimizedAVLTree.get_range
Opt_get_range ==
    \E cache_key \in RangeArgs :
        /\ cls = "OptimizedAVLTree"
        /\ IF cache_key \in DOMAIN range_cache /\ cache_valid
           THEN /\ ret' = Ret("get_range", cache_key, TRUE, FALSE, TRUE,
                              range_cache[cache_key])
                /\ UNCHANGED <<range_cache, cache_valid>>
           ELSE LET result == Opt_range_query(root, cache_key[1], cache_key[2])
                IN /\ range_cache' = DictSet(range_cache, cache_key, result)
                   /\ cache_valid' = TRUE
                   /\ ret' = Ret("get_range", cache_key, TRUE, FALSE, FALSE, result)
        /\ UNCHANGED <<cls, root, last_id_at, dbvars, boardvars, threadvars>>

\* OptimizedAVLTree.get_kth_smallest
Opt_get_kth_smallest ==
    \E k \in 0..(MaxMetric + 1) :
        /\ cls = "OptimizedAVLTree"
        /\ LET r == Opt_kth(root, k)
           IN ret' = Ret("get_kth_smallest", <<k>>, TRUE, r.none, FALSE, r.value)
        /\ UNCHANGED <<treevars, dbvars, boardvars, threadvars>>

\* OptimizedAVLTree.get_rank
Opt_get_rank ==
    \E value \in RankArgs :
        /\ cls = "OptimizedAVLTree"
        /\ ret' = Ret("get_rank", <<value>>, TRUE, FALSE, FALSE,
                      Opt_count_less_than(root, value))
        /\ UNCHANGED <<treevars, dbvars, boardvars, threadvars>>

\* AVLTree.insert
AVL_insert ==
    \E horse_id \in HorseIds, win_ratio \in Metrics :
        /\ <<horse_id, win_ratio>> \in InsertArgs
        /\ cls = "AVLTree"
        /\ root' = AVL_insert_node(root, horse_id, win_ratio)
        /\ last_id_at' = LastIdAfter(last_id_at, << <<horse_id, win_ratio>> >>)
        /\ ret' = Ret("insert", <<horse_id, win_ratio>>, TRUE, TRUE, FALSE, NoValue)
        /\ UNCHANGED <<cls, range_cache, cache_valid, dbvars, boardvars, threadvars>>

\* AVLTree.get_range
AVL_get_range ==
    \E r \in RangeArgs :
        /\ cls = "AVLTree"
        /\ ret' = Ret("get_range", r, TRUE, FALSE, FALSE,
                      AVL_range_search(root, r[1], r[2]))
        /\ UNCHANGED <<treevars, dbvars, boardvars, threadvars>>

\* AVLTree.get_sorted_list
AVL_get_sorted_list ==
    /\ cls = "AVLTree"
    /\ ret' = Ret("get_sorted_list", <<>>, TRUE, FALSE, FALSE, AVL_inorder_traversal(root))
    /\ UNCHANGED <<treevars, dbvars, boardvars, threadvars>>

(***************************************************************************)
(* OptimizedLeaderboard and Leaderboard: the state and the helpers.        *)
(***************************************************************************)
MaxTime == 2           \* race times are drawn from 1..MaxTime
MaxResults == 2        \* longest list handed to add_results_bulk

\* the ids on the leaderboard, in the order Python compares the strings
IdOrder == <<"H1", "H2">>

\* self.heap, which keeps the entries of removed ids until it is rebuilt, is
\* not pushed beyond one entry per id
MaxHeap == Len(IdOrder)

\* the values of the constructor argument cache_top_k, and the n that
\* get_top_performers is called with: from 0 to more than there are ids
TopKs == 1..Len(IdOrder)

TopNs == 0..(Len(IdOrder) + 1)

Runners == {IdOrder[i] : i \in 1..Len(IdOrder)}

Times == 1..MaxTime

IdRank(id) == CHOOSE i \in 1..Len(IdOrder) : IdOrder[i] = id

\* (time, horse_id) < (time, horse_id) as Python compares tuples
TupleLess(a, b) ==
    \/ a[1] < b[1]
    \/ a[1] = b[1] /\ IdRank(a[2]) < IdRank(b[2])

\* s[:n] for n >= 0
Take(s, n) == SubSeq(s, 1, IF n <= Len(s) THEN n ELSE Len(s))

\* ---- horse_times, a dict kept as the sequence of its (horse_id, time) items
TimesKeys(ht) == {ht[i][1] : i \in 1..Len(ht)}

TimeOf(ht, horse_id) == ht[CHOOSE i \in 1..Len(ht) : ht[i][1] = horse_id][2]

\* horse_times[horse_id] = t : a key already there keeps its place
TimesSet(ht, horse_id, t) ==
    IF horse_id \in TimesKeys(ht)
    THEN [i \in 1..Len(ht) |-> IF ht[i][1] = horse_id THEN <<horse_id, t>> ELSE ht[i]]
    ELSE Append(ht, <<horse_id, t>>)

\* del horse_times[horse_id]
TimesDel(ht, horse_id) == SelectSeq(ht, LAMBDA e : e[1] # horse_id)

\* [(time, horse_id) for horse_id, time in ...items()]
TimeIdPairs(items) == [i \in 1..Len(items) |-> <<items[i][2], items[i][1]>>]

\* [(horse_id, time) for time, horse_id in ...]
IdTimePairs(pairs) == [i \in 1..Len(pairs) |-> <<pairs[i][2], pairs[i][1]>>]

\* ---- heapq on a list of (time, horse_id); positions are 0-based as in heapq
RECURSIVE heapq_siftdown(_, _, _, _)
heapq_siftdown(h, startpos, pos, newitem) ==
    IF pos > startpos
    THEN LET parentpos == (pos - 1) \div 2
             parent == h[parentpos + 1]
         IN IF TupleLess(newitem, parent)
            THEN heapq_siftdown([h EXCEPT ![pos + 1] = parent], startpos, parentpos, newitem)
            ELSE [h EXCEPT ![pos + 1] = newitem]
    ELSE [h EXCEPT ![pos + 1] = newitem]

heappush(h, item) == heapq_siftdown(Append(h, item), 0, Len(h), item)

\* the loop of heapq._siftup: the smaller child moves up until a leaf is hit
RECURSIVE heapq_siftup_loop(_, _)
heapq_siftup_loop(h, pos) ==
    LET endpos == Len(h)
        childpos == 2 * pos + 1
        rightpos == childpos + 1
        c == IF rightpos < endpos /\ ~TupleLess(h[childpos + 1], h[rightpos + 1])
             THEN rightpos ELSE childpos
    IN IF childpos < endpos
       THEN heapq_siftup_loop([h EXCEPT ![pos + 1] = h[c + 1]], c)
       ELSE [h |-> h, pos |-> pos]

heapq_siftup(h, pos) ==
    LET newitem == h[pos + 1]
        r == heapq_siftup_loop(h, pos)
    IN heapq_siftdown(r.h, pos, r.pos, newitem)

RECURSIVE heapify_from(_, _)
heapify_from(h, i) == IF i < 0 THEN h ELSE heapify_from(heapq_siftup(h, i), i - 1)

heapify(h) == heapify_from(h, (Len(h) \div 2) - 1)

RECURSIVE InsertTuple(_, _)
InsertTuple(sorted, item) ==
    IF sorted = <<>> THEN <<item>>
    ELSE IF TupleLess(item, Head(sorted)) THEN <<item>> \o sorted
    ELSE <<Head(sorted)>> \o InsertTuple(Tail(sorted), item)

\* sorted(list of (time, horse_id))
RECURSIVE SortTuples(_)
SortTuples(s) ==
    IF s = <<>> THEN <<>>
    ELSE InsertTuple(SortTuples(SubSeq(s, 1, Len(s) - 1)), s[Len(s)])

\* heapq.nsmallest(n, h) : the n smallest in ascending order, [] for n <= 0
nsmallest(n, h) == IF n <= 0 THEN <<>> ELSE Take(SortTuples(h), n)

\* ---- the leaderboard object, as a record the private methods transform
NoCache == [none |-> TRUE, list |-> <<>>]

Cached(l) == [none |-> FALSE, list |-> l]

Board == [heap |-> heap,
          entries |-> entries,
          horse_times |-> horse_times,
          cached_top_results |-> cached_top_results,
          cache_valid |-> heap_cache_valid,
          sorted_times |-> sorted_times,
          sorted_valid |-> sorted_valid]

SetBoard(B) ==
    /\ heap' = B.heap
    /\ entries' = B.entries
    /\ horse_times' = B.horse_times
    /\ cached_top_results' = B.cached_top_results
    /\ heap_cache_valid' = B.cache_valid
    /\ sorted_times' = B.sorted_times
    /\ sorted_valid' = B.sorted_valid

\* _mark_heap_dirty
mark_heap_dirty(B, ranges) ==
    [B EXCEPT !.cache_valid = FALSE,
              !.sorted_valid = IF ranges THEN FALSE ELSE @]

\* _add_result_internal that stores the new time whether or not it is lower
add_result_internal_Overwrite(B, horse_id, race_time, ranges) ==
    IF horse_id \notin B.entries
    THEN [B EXCEPT !.heap = heappush(@, <<race_time, horse_id>>),
                   !.entries = @ \cup {horse_id},
                   !.horse_times = TimesSet(@, horse_id, race_time)]
    ELSE mark_heap_dirty([B EXCEPT !.horse_times = TimesSet(@, horse_id, race_time)],
                         ranges)

\* _add_result_internal
add_result_internal(B, horse_id, race_time, ranges) ==
    IF horse_id \notin B.entries
    THEN [B EXCEPT !.heap = heappush(@, <<race_time, horse_id>>),
                   !.entries = @ \cup {horse_id},
                   !.horse_times = TimesSet(@, horse_id, race_time)]
    ELSE IF race_time < TimeOf(B.horse_times, horse_id)
    THEN mark_heap_dirty([B EXCEPT !.horse_times = TimesSet(@, horse_id, race_time)],
                         ranges)
    ELSE B

RECURSIVE add_results_all(_, _, _)
add_results_all(B, results, ranges) ==
    IF results = <<>> THEN B
    ELSE add_results_all(add_result_internal(B, Head(results)[1], Head(results)[2], ranges),
                         Tail(results), ranges)

\* _invalidate_caches that leaves cache_valid as it is
invalidate_caches_KeepHeap(B, ranges) ==
    [B EXCEPT !.cached_top_results = NoCache,
              !.sorted_valid = IF ranges THEN FALSE ELSE @]

\* _invalidate_caches that keeps cached_top_results
invalidate_caches_KeepTop(B, ranges) ==
    [B EXCEPT !.cache_valid = FALSE,
              !.sorted_valid = IF ranges THEN FALSE ELSE @]

\* _invalidate_caches
invalidate_caches(B, ranges) ==
    [B EXCEPT !.cached_top_results = NoCache,
              !.cache_valid = FALSE,
              !.sorted_valid = IF ranges THEN FALSE ELSE @]

\* _rebuild_heap_if_needed
rebuild_heap_if_needed(B) ==
    IF ~B.cache_valid
    THEN [B EXCEPT !.heap = heapify(TimeIdPairs(B.horse_times)),
                   !.cache_valid = TRUE]
    ELSE B

\* sorted(self.horse_times.items(), key=lambda x: x[1]) : stable
sorted_by_time(items) == SortByValue(items)

\* _rebuild_sorted_if_needed that never rebuilds
rebuild_sorted_if_needed_Never(B, ranges) == B

\* _rebuild_sorted_if_needed
rebuild_sorted_if_needed(B, ranges) ==
    IF ranges /\ ~B.sorted_valid
    THEN [B EXCEPT !.sorted_times = sorted_by_time(B.horse_times),
                   !.sorted_valid = TRUE]
    ELSE B

\* Leaderboard._rebuild_heap
LB_rebuild_heap(B) == [B EXCEPT !.heap = heapify(TimeIdPairs(B.horse_times))]

(***************************************************************************)
(* The public operations of the leaderboards.  The statistics counters     *)
(* (update_count, query_count, cache_hits, cache_misses) are write-only    *)
(* for these operations and are left out.                                  *)
(***************************************************************************)
\* the lists handed to add_results_bulk
BulkResults == UNION {[1..n -> {<<"H1", 1>>, <<"H2", MaxTime>>}] : n \in 0..MaxResults}

\* the (min_time, max_time, limit) get_top_performers_in_time_range is called with
TimeRangeArgs == {<<1, MaxTime, 2>>, <<2, MaxTime, 1>>, <<1, 1, 3>>}

InitBoard(classes, ks) ==
    /\ lb_cls \in classes
    /\ heap = <<>>
    /\ entries = {}
    /\ horse_times = <<>>
    /\ cache_top_k \in (IF lb_cls = "OptimizedLeaderboard" THEN ks ELSE {0})
    /\ cached_top_results = NoCache
    /\ heap_cache_valid = FALSE
    /\ enable_range_queries \in (IF lb_cls = "OptimizedLeaderboard" THEN BOOLEAN ELSE {FALSE})
    /\ sorted_times = <<>>
    /\ sorted_valid = FALSE
    /\ submitted = <<>>

\* the history after horse_id handed in race_time
Submit(sub, horse_id, race_time) ==
    [h \in DOMAIN sub \cup {horse_id} |->
        IF h = horse_id
        THEN (IF h \in DOMAIN sub /\ sub[h] <= race_time THEN sub[h] ELSE race_time)
        ELSE sub[h]]

RECURSIVE SubmitAll(_, _)
SubmitAll(sub, results) ==
    IF results = <<>> THEN sub
    ELSE SubmitAll(Submit(sub, Head(results)[1], Head(results)[2]), Tail(results))

\* OptimizedLeaderboard.add_result
OLB_add_result ==
    \E horse_id \in Runners, race_time \in Times :
        /\ lb_cls = "OptimizedLeaderboard"
        /\ Len(add_result_internal(Board, horse_id, race_time,
                                   enable_range_queries).heap) <= MaxHeap
        /\ SetBoard(invalidate_caches(
               add_result_internal(Board, horse_id, race_time, enable_range_queries),
               enable_range_queries))
        /\ submitted' = Submit(submitted, horse_id, race_time)
        /\ ret' = Ret("add_result", <<>>, TRUE, TRUE, FALSE, NoValue)
        /\ UNCHANGED <<lb_cls, cache_top_k, enable_range_queries, dbvars, treevars,
                       threadvars>>

\* OptimizedLeaderboard.add_results_bulk
OLB_add_results_bulk ==
    \E results \in BulkResults :
        /\ lb_cls = "OptimizedLeaderboard"
        /\ Len(add_results_all(Board, results, enable_range_queries).heap) <= MaxHeap
        /\ SetBoard(invalidate_caches(
               add_results_all(Board, results, enable_range_queries),
               enable_range_queries))
        /\ submitted' = SubmitAll(submitted, results)
        /\ ret' = Ret("add_results_bulk", <<>>, TRUE, TRUE, FALSE, NoValue)
        /\ UNCHANGED <<lb_cls, cache_top_k, enable_range_queries, dbvars, treevars,
                       threadvars>>

\* OptimizedLeaderboard.update_horse_time
OLB_update_horse_time ==
    \E horse_id \in Runners, new_time \in Times :
        /\ lb_cls = "OptimizedLeaderboard"
        /\ IF horse_id \notin entries
           THEN /\ ret' = Ret("update_horse_time", <<horse_id>>, FALSE, FALSE,
                              FALSE, NoValue)
                /\ UNCHANGED <<heap, entries, horse_times, cached_top_results,
                               heap_cache_valid, sorted_times, sorted_valid, submitted>>
           ELSE /\ submitted' = Submit(submitted, horse_id, new_time)
                /\ IF new_time < TimeOf(horse_times, horse_id)
                   THEN /\ SetBoard(invalidate_caches(
                               [Board EXCEPT !.horse_times = TimesSet(@, horse_id, new_time)],
                               enable_range_queries))
                        /\ ret' = Ret("update_horse_time", <<horse_id>>, TRUE,
                                      FALSE, FALSE, NoValue)
                   ELSE /\ ret' = Ret("update_horse_time", <<horse_id>>, FALSE,
                                      FALSE, FALSE, NoValue)
                        /\ UNCHANGED <<heap, entries, horse_times, cached_top_results,
                                       heap_cache_valid, sorted_times, sorted_valid>>
        /\ UNCHANGED <<lb_cls, cache_top_k, enable_range_queries, dbvars, treevars,
                       threadvars>>

\* OptimizedLeaderboard.remove_horse
OLB_remove_horse ==
    \E horse_id \in Runners :
        /\ lb_cls = "OptimizedLeaderboard"
        /\ IF horse_id \notin entries
           THEN /\ ret' = Ret("remove_horse", <<horse_id>>, FALSE, FALSE, FALSE, NoValue)
                /\ UNCHANGED <<heap, entries, horse_times, cached_top_results,
                               heap_cache_valid, sorted_times, sorted_valid, submitted>>
           ELSE /\ SetBoard(invalidate_caches(
                       [Board EXCEPT !.entries = @ \ {horse_id},
                                     !.horse_times = TimesDel(@, horse_id)],
                       enable_range_queries))
                /\ submitted' = DictDel(submitted, horse_id)
                /\ ret' = Ret("remove_horse", <<horse_id>>, TRUE, FALSE, FALSE, NoValue)
        /\ UNCHANGED <<lb_cls, cache_top_k, enable_range_queries, dbvars, treevars,
                       threadvars>>

\* OptimizedLeaderboard.get_top_performers
OLB_get_top_performers ==
    \E n \in TopNs :
        /\ lb_cls = "OptimizedLeaderboard"
        /\ IF /\ n <= cache_top_k
              /\ ~cached_top_results.none
              /\ Len(cached_top_results.list) >= n
           THEN /\ ret' = Ret("get_top_performers", <<n>>, TRUE, FALSE, TRUE,
                              Take(cached_top_results.list, n))
                /\ UNCHANGED <<heap, entries, horse_times, cached_top_results,
                               heap_cache_valid, sorted_times, sorted_valid>>
           ELSE LET B1 == rebuild_heap_if_needed(Board)
                    result == IdTimePairs(nsmallest(n, B1.heap))
                    B2 == IF n <= cache_top_k
                          THEN [B1 EXCEPT !.cached_top_results =
                                   Cached(IdTimePairs(nsmallest(cache_top_k, B1.heap)))]
                          ELSE B1
                IN /\ SetBoard(B2)
                   /\ ret' = Ret("get_top_performers", <<n>>, TRUE, FALSE, FALSE, result)
        /\ UNCHANGED <<lb_cls, cache_top_k, enable_range_queries, submitted,
                       dbvars, treevars, threadvars>>

\* a loop that breaks at the first entry outside the range, below it or above
RECURSIVE range_scan_BreakBelow(_, _, _)
range_scan_BreakBelow(sorted, min_time, max_time) ==
    IF sorted = <<>> THEN <<>>
    ELSE LET horse_id == Head(sorted)[1]
             time == Head(sorted)[2]
         IN IF min_time <= time /\ time <= max_time
            THEN << <<time, horse_id>> >>
                 \o range_scan_BreakBelow(Tail(sorted), min_time, max_time)
            ELSE <<>>

\* the loop of get_top_performers_in_time_range over sorted_times
RECURSIVE range_scan(_, _, _)
range_scan(sorted, min_time, max_time) ==
    IF sorted = <<>> THEN <<>>
    ELSE LET horse_id == Head(sorted)[1]
             time == Head(sorted)[2]
         IN IF min_time <= time /\ time <= max_time
            THEN << <<time, horse_id>> >> \o range_scan(Tail(sorted), min_time, max_time)
            ELSE IF time > max_time THEN <<>>
            ELSE range_scan(Tail(sorted), min_time, max_time)

\* OptimizedLeaderboard.get_top_performers_in_time_range
OLB_get_top_performers_in_time_range ==
    \E a \in TimeRangeArgs :
        LET min_time == a[1]
            max_time == a[2]
            limit == a[3]
        IN /\ lb_cls = "OptimizedLeaderboard"
           /\ IF ~enable_range_queries
              THEN LET results == SelectSeq(TimeIdPairs(horse_times),
                                            LAMBDA e : min_time <= e[1] /\ e[1] <= max_time)
                   IN /\ ret' = Ret("get_top_performers_in_time_range", a, TRUE, FALSE,
                                    FALSE, Take(SortTuples(results), limit))
                      /\ UNCHANGED <<heap, entries, horse_times, cached_top_results,
                                     heap_cache_valid, sorted_times, sorted_valid>>
              ELSE LET B1 == rebuild_sorted_if_needed(Board, enable_range_queries)
                       range_results == range_scan(B1.sorted_times, min_time, max_time)
                   IN /\ SetBoard(B1)
                      /\ ret' = Ret("get_top_performers_in_time_range", a, TRUE, FALSE,
                                    FALSE, Take(range_results, limit))
           /\ UNCHANGED <<lb_cls, cache_top_k, enable_range_queries, submitted,
                          dbvars, treevars, threadvars>>

\* a count that takes the equal times too
better_count_OrEqual(items, target_time) ==
    Cardinality({i \in 1..Len(items) : items[i][2] <= target_time})

\* sum(1 for time in ... if time < target_time) over a list of (horse_id, time)
better_count(items, target_time) ==
    Cardinality({i \in 1..Len(items) : items[i][2] < target_time})

\* OptimizedLeaderboard.get_horse_rank
OLB_get_horse_rank ==
    \E horse_id \in Runners :
        /\ lb_cls = "OptimizedLeaderboard"
        /\ ret' = Ret("get_horse_rank", <<horse_id>>, TRUE, FALSE, FALSE,
                      IF horse_id \notin entries THEN -1
                      ELSE better_count(horse_times, TimeOf(horse_times, horse_id)) + 1)
        /\ UNCHANGED <<boardvars, dbvars, treevars, threadvars>>

\* OptimizedLeaderboard.get_horse_rank_optimized
OLB_get_horse_rank_optimized ==
    \E horse_id \in Runners :
        /\ lb_cls = "OptimizedLeaderboard"
        /\ IF horse_id \notin entries
           THEN /\ ret' = Ret("get_horse_rank_optimized", <<horse_id>>, TRUE, FALSE, FALSE, -1)
                /\ UNCHANGED <<heap, entries, horse_times, cached_top_results,
                               heap_cache_valid, sorted_times, sorted_valid>>
           ELSE IF ~enable_range_queries
           THEN /\ ret' = Ret("get_horse_rank_optimized", <<horse_id>>, TRUE, FALSE, FALSE,
                              better_count(horse_times, TimeOf(horse_times, horse_id)) + 1)
                /\ UNCHANGED <<heap, entries, horse_times, cached_top_results,
                               heap_cache_valid, sorted_times, sorted_valid>>
           ELSE LET B1 == rebuild_sorted_if_needed(Board, enable_range_queries)
                IN /\ SetBoard(B1)
                   /\ ret' = Ret("get_horse_rank_optimized", <<horse_id>>, TRUE, FALSE, FALSE,
                                 better_count(B1.sorted_times,
                                              TimeOf(horse_times, horse_id)) + 1)
        /\ UNCHANGED <<lb_cls, cache_top_k, enable_range_queries, submitted,
                       dbvars, treevars, threadvars>>

\* OptimizedLeaderboard.get_all_results
OLB_get_all_results ==
    /\ lb_cls = "OptimizedLeaderboard"
    /\ IF enable_range_queries
       THEN LET B1 == rebuild_sorted_if_needed(Board, enable_range_queries)
            IN /\ SetBoard(B1)
               /\ ret' = Ret("get_all_results", <<>>, TRUE, FALSE, FALSE,
                             TimeIdPairs(B1.sorted_times))
       ELSE /\ ret' = Ret("get_all_results", <<>>, TRUE, FALSE, FALSE,
                          SortTuples(TimeIdPairs(horse_times)))
            /\ UNCHANGED <<heap, entries, horse_times, cached_top_results,
                           heap_cache_valid, sorted_times, sorted_valid>>
    /\ UNCHANGED <<lb_cls, cache_top_k, enable_range_queries, submitted, dbvars, treevars,
                   threadvars>>

\* OptimizedLeaderboard.size
OLB_size ==
    /\ lb_cls = "OptimizedLeaderboard"
    /\ ret' = Ret("size", <<>>, TRUE, FALSE, FALSE, Cardinality(entries))
    /\ UNCHANGED <<boardvars, dbvars, treevars, threadvars>>

\* the dict get_percentile_stats builds of the ascending list times; the mean
\* is kept as the pair (sum, n)
RECURSIVE SumSeq(_)
SumSeq(s) == IF s = <<>> THEN 0 ELSE Head(s) + SumSeq(Tail(s))

percentiles(times) ==
    LET n == Len(times)
    IN IF n = 0 THEN <<>>
       ELSE [min |-> times[1],
             max |-> times[n],
             median |-> times[(n \div 2) + 1],
             p25 |-> times[(n \div 4) + 1],
             p75 |-> times[((3 * n) \div 4) + 1],
             p90 |-> times[((9 * n) \div 10) + 1],
             p95 |-> times[((95 * n) \div 100) + 1],
             mean |-> <<SumSeq(times), n>>]

\* sorted(self.horse_times.values())
RECURSIVE SortNumbers(_)
SortNumbers(s) ==
    IF s = <<>> THEN <<>>
    ELSE LET m == CHOOSE i \in 1..Len(s) : \A j \in 1..Len(s) : s[i] <= s[j]
         IN <<s[m]>> \o SortNumbers(SubSeq(s, 1, m - 1) \o SubSeq(s, m + 1, Len(s)))

\* OptimizedLeaderboard.get_percentile_stats
OLB_get_percentile_stats ==
    /\ lb_cls = "OptimizedLeaderboard"
    /\ IF ~enable_range_queries
       THEN /\ ret' = Ret("get_percentile_stats", <<>>, TRUE, FALSE, FALSE,
                          percentiles(SortNumbers([i \in 1..Len(horse_times) |->
                                                      horse_times[i][2]])))
            /\ UNCHANGED <<heap, entries, horse_times, cached_top_results,
                           heap_cache_valid, sorted_times, sorted_valid>>
       ELSE LET B1 == rebuild_sorted_if_needed(Board, enable_range_queries)
            IN /\ SetBoard(B1)
               /\ ret' = Ret("get_percentile_stats", <<>>, TRUE, FALSE, FALSE,
                             percentiles([i \in 1..Len(B1.sorted_times) |->
                                             B1.sorted_times[i][2]]))
    /\ UNCHANGED <<lb_cls, cache_top_k, enable_range_queries, submitted, dbvars, treevars,
                   threadvars>>

\* OptimizedLeaderboard.compact
OLB_compact ==
    /\ lb_cls = "OptimizedLeaderboard"
    /\ SetBoard([rebuild_sorted_if_needed(rebuild_heap_if_needed(Board),
                                          enable_range_queries)
                   EXCEPT !.cached_top_results = NoCache])
    /\ ret' = Ret("compact", <<>>, TRUE, TRUE, FALSE, NoValue)
    /\ UNCHANGED <<lb_cls, cache_top_k, enable_range_queries, submitted, dbvars, treevars,
                   threadvars>>

\* Leaderboard.add_result
LB_add_result ==
    \E horse_id \in Runners, time \in Times :
        /\ lb_cls = "Leaderboard"
        /\ SetBoard(IF horse_id \notin entries
                    THEN [Board EXCEPT !.heap = heappush(@, <<time, horse_id>>),
                                       !.entries = @ \cup {horse_id},
                                       !.horse_times = TimesSet(@, horse_id, time)]
                    ELSE IF time < TimeOf(horse_times, horse_id)
                    THEN LB_rebuild_heap(
                             [Board EXCEPT !.horse_times = TimesSet(@, horse_id, time)])
                    ELSE Board)
        /\ submitted' = Submit(submitted, horse_id, time)
        /\ ret' = Ret("add_result", <<>>, TRUE, TRUE, FALSE, NoValue)
        /\ UNCHANGED <<lb_cls, cache_top_k, enable_range_queries, dbvars, treevars,
                       threadvars>>

\* Leaderboard.remove_horse
LB_remove_horse ==
    \E horse_id \in Runners :
        /\ lb_cls = "Leaderboard"
        /\ IF horse_id \in entries
           THEN /\ SetBoard(LB_rebuild_heap(
                       [Board EXCEPT !.entries = @ \ {horse_id},
                                     !.horse_times = TimesDel(@, horse_id)]))
                /\ submitted' = DictDel(submitted, horse_id)
                /\ ret' = Ret("remove_horse", <<horse_id>>, TRUE, FALSE, FALSE, NoValue)
           ELSE /\ ret' = Ret("remove_horse", <<horse_id>>, FALSE, FALSE, FALSE, NoValue)
                /\ UNCHANGED <<heap, entries, horse_times, cached_top_results,
                               heap_cache_valid, sorted_times, sorted_valid, submitted>>
        /\ UNCHANGED <<lb_cls, cache_top_k, enable_range_queries, dbvars, treevars,
                       threadvars>>

\* the index i + 1 of the first (time, h_id) of sorted(self.heap) with h_id == horse_id
rank_in_sorted(sorted, horse_id) ==
    IF \E i \in 1..Len(sorted) : sorted[i][2] = horse_id
    THEN CHOOSE i \in 1..Len(sorted) :
             /\ sorted[i][2] = horse_id
             /\ \A j \in 1..(i - 1) : sorted[j][2] # horse_id
    ELSE -1

\* Leaderboard.get_horse_rank
LB_get_horse_rank ==
    \E horse_id \in Runners :
        /\ lb_cls = "Leaderboard"
        /\ ret' = Ret("get_horse_rank", <<horse_id>>, TRUE, FALSE, FALSE,
                      IF horse_id \notin entries THEN -1
                      ELSE rank_in_sorted(SortTuples(heap), horse_id))
        /\ UNCHANGED <<boardvars, dbvars, treevars, threadvars>>

\* Leaderboard.get_all_results
LB_get_all_results ==
    /\ lb_cls = "Leaderboard"
    /\ ret' = Ret("get_all_results", <<>>, TRUE, FALSE, FALSE, SortTuples(heap))
    /\ UNCHANGED <<boardvars, dbvars, treevars, threadvars>>

(***************************************************************************)
(* Threads.  A thread is idle, inside one call, or done with it; a step is *)
(* one access to the shared object that no lock the thread holds protects  *)
(* from the other thread, or a whole locked section when every access of   *)
(* the other thread to the same data takes the same lock.                  *)
(***************************************************************************)
\* no thread is inside a call
Quiet == \A t \in Threads : pc[t] = "idle"

\* the thread has returned or raised: it is ready for its next call
T_finish ==
    \E t \in Threads :
        /\ pc[t] = "done"
        /\ pc' = [pc EXCEPT ![t] = "idle"]
        /\ local' = [local EXCEPT ![t] = NoLocal]
        /\ UNCHANGED <<dbvars, treevars, boardvars, locks, ret>>

\* the locals of a call: its arguments, whether it raised, the value it
\* returned, and (history) the values that were current during the call
Call(op, horse_id, allowed) ==
    [op |-> op, horse_id |-> horse_id, raised |-> FALSE, value |-> NoValue,
     allowed |-> allowed]

Returned(l, value) == [l EXCEPT !.value = value]

Raised(l) == [l EXCEPT !.raised = TRUE]

\* the rank of horse_id in the mapping ht, as a set: empty when absent
RankIn(ht, horse_id) ==
    IF horse_id \in TimesKeys(ht)
    THEN {better_count(ht, TimeOf(ht, horse_id)) + 1}
    ELSE {}

RankNow(horse_id) == RankIn(horse_times, horse_id)

\* t1 calls get_horse_rank or get_horse_rank_optimized:
\* `if horse_id not in self.entries: return -1`, read without the lock
Rank_check_entries ==
    \E op \in {"get_horse_rank", "get_horse_rank_optimized"}, horse_id \in Runners :
        LET l == Call(op, horse_id, {-1} \cup RankNow(horse_id))
        IN /\ pc["t1"] = "idle"
           /\ lb_cls = "OptimizedLeaderboard"
           /\ IF horse_id \notin entries
              THEN /\ pc' = [pc EXCEPT !["t1"] = "done"]
                   /\ local' = [local EXCEPT !["t1"] = Returned(l, -1)]
              ELSE /\ pc' = [pc EXCEPT !["t1"] =
                               IF op = "get_horse_rank_optimized" /\ ~enable_range_queries
                               THEN "delegated" ELSE "locked"]
                   /\ local' = [local EXCEPT !["t1"] = l]
           /\ UNCHANGED <<dbvars, treevars, boardvars, locks, ret>>

\* get_horse_rank_optimized without range queries calls get_horse_rank, which
\* reads self.entries again
Rank_delegated ==
    /\ pc["t1"] = "delegated"
    /\ IF local["t1"].horse_id \notin entries
       THEN /\ pc' = [pc EXCEPT !["t1"] = "done"]
            /\ local' = [local EXCEPT !["t1"] = Returned(@, -1)]
       ELSE /\ pc' = [pc EXCEPT !["t1"] = "locked"]
            /\ local' = [local EXCEPT !["t1"].op = "get_horse_rank"]
    /\ UNCHANGED <<dbvars, treevars, boardvars, locks, ret>>

\* the section of get_horse_rank / get_horse_rank_optimized under self.lock:
\* self.horse_times[horse_id] raises KeyError for a key that is not there
Rank_locked ==
    /\ pc["t1"] = "locked"
    /\ locks.lock = "none"
    /\ LET horse_id == local["t1"].horse_id
           B1 == IF local["t1"].op = "get_horse_rank_optimized"
                 THEN rebuild_sorted_if_needed(Board, enable_range_queries)
                 ELSE Board
       IN /\ SetBoard(B1)
          /\ local' = [local EXCEPT !["t1"] =
                          IF horse_id \notin TimesKeys(horse_times) THEN Raised(@)
                          ELSE IF @.op = "get_horse_rank_optimized"
                          THEN Returned(@, better_count(B1.sorted_times,
                                                        TimeOf(horse_times, horse_id)) + 1)
                          ELSE Returned(@, better_count(horse_times,
                                                        TimeOf(horse_times, horse_id)) + 1)]
    /\ pc' = [pc EXCEPT !["t1"] = "done"]
    /\ UNCHANGED <<lb_cls, cache_top_k, enable_range_queries, submitted, dbvars,
                   treevars, locks, ret>>

\* t2 calls remove_horse: it takes self.lock, and for an id on the board
\* `self.entries.remove(horse_id)` is its first write
Remove_entries ==
    \E horse_id \in Runners :
        LET l == Call("remove_horse", horse_id, BOOLEAN)
        IN /\ pc["t2"] = "idle"
           /\ lb_cls = "OptimizedLeaderboard"
           /\ locks.lock = "none"
           /\ IF horse_id \notin entries
              THEN /\ pc' = [pc EXCEPT !["t2"] = "done"]
                   /\ local' = [local EXCEPT !["t2"] = Returned(l, FALSE)]
                   /\ UNCHANGED <<entries, locks>>
              ELSE /\ entries' = entries \ {horse_id}
                   /\ locks' = [locks EXCEPT !.lock = "t2"]
                   /\ pc' = [pc EXCEPT !["t2"] = "del_times"]
                   /\ local' = [local EXCEPT !["t2"] = l]
           /\ UNCHANGED <<lb_cls, heap, horse_times, cache_top_k, cached_top_results,
                          heap_cache_valid, enable_range_queries, sorted_times,
                          sorted_valid, submitted, dbvars, treevars, ret>>

\* remove_horse: `del self.horse_times[horse_id]`, _invalidate_caches, and
\* the lock is released
Remove_del_times ==
    /\ pc["t2"] = "del_times"
    /\ LET horse_id == local["t2"].horse_id
       IN /\ SetBoard(invalidate_caches(
                 [Board EXCEPT !.horse_times = TimesDel(@, horse_id)],
                 enable_range_queries))
          /\ submitted' = DictDel(submitted, horse_id)
    /\ locks' = [locks EXCEPT !.lock = "none"]
    /\ pc' = [pc EXCEPT !["t2"] = "done"]
    /\ local' = [local EXCEPT
                    !["t2"] = Returned(@, TRUE),
                    !["t1"] = IF pc["t1"] \in {"idle", "done"} THEN @
                              ELSE [@ EXCEPT !.allowed =
                                       @ \cup RankIn(TimesDel(horse_times,
                                                              local["t2"].horse_id),
                                                     local["t1"].horse_id)]]
    /\ UNCHANGED <<lb_cls, cache_top_k, enable_range_queries, dbvars, treevars, ret>>

(***************************************************************************)
(* get_horse in t1 while t2 writes to the same OptimizedHorseDatabase.     *)
(* LRUCache.get holds the cache's lock and not the store's; remove_horse   *)
(* holds the store's lock and calls LRUCache._remove, which takes none.    *)
(***************************************************************************)
\* what db holds for horse_id: <<record>>, or <<>> when there is none
Current(d, horse_id) == IF horse_id \in DOMAIN d THEN <<d[horse_id]>> ELSE <<>>

\* t1 is inside get_horse
Reading == pc["t1"] \notin {"idle", "done"}

\* the locals of t1 after t2 changed db to d: one more value was current
Witnessed(l, d) ==
    [l EXCEPT !["t1"] = IF Reading
                        THEN [@ EXCEPT !.allowed = @ \cup {Current(d, l["t1"].horse_id)}]
                        ELSE @]

\* t1 calls get_horse, which calls self.cache.get: with the cache's lock,
\* `if key not in self.cache: return None`
Get_in_cache ==
    \E horse_id \in HorseIds :
        LET mid == pc["t2"] \in {"pop_cache", "pop_ts"} /\ local["t2"].horse_id = horse_id
            l == Call("get_horse", horse_id,
                      {Current(db, horse_id)}
                          \cup (IF mid THEN {<<local["t2"].value>>} ELSE {}))
        IN /\ pc["t1"] = "idle"
           /\ locks.cache_lock = "none"
           /\ local' = [local EXCEPT !["t1"] = l]
           /\ IF horse_id \notin CacheKeys(cache)
              THEN /\ pc' = [pc EXCEPT !["t1"] = "miss"]
                   /\ UNCHANGED locks
              ELSE /\ pc' = [pc EXCEPT !["t1"] = "ttl"]
                   /\ locks' = [locks EXCEPT !.cache_lock = "t1"]
           /\ UNCHANGED <<dbvars, treevars, boardvars, ret>>

\* LRUCache.get: `if time.time() - self.timestamps[key] > self.ttl_seconds`
Get_ttl ==
    /\ pc["t1"] = "ttl"
    /\ LET key == local["t1"].horse_id
       IN IF key \notin DOMAIN timestamps
          THEN /\ local' = [local EXCEPT !["t1"] = Raised(@)]
               /\ pc' = [pc EXCEPT !["t1"] = "done"]
               /\ locks' = [locks EXCEPT !.cache_lock = "none"]
          ELSE /\ pc' = [pc EXCEPT !["t1"] =
                           IF now - timestamps[key] > ttl_seconds
                           THEN "expire_cache" ELSE "move"]
               /\ UNCHANGED <<local, locks>>
    /\ UNCHANGED <<dbvars, treevars, boardvars, ret>>

\* LRUCache.get on an expired entry, _remove: `self.cache.pop(key, None)`
Get_expire_cache ==
    /\ pc["t1"] = "expire_cache"
    /\ cache' = WithoutKey(cache, local["t1"].horse_id)
    /\ pc' = [pc EXCEPT !["t1"] = "expire_ts"]
    /\ UNCHANGED <<db, timestamps, max_size, enable_indexing, jockey_index, age_index,
                   win_ratio_index, now, latest, last_used, treevars, boardvars,
                   locks, local, ret>>

\* _remove: `self.timestamps.pop(key, None)`, and get returns None
Get_expire_ts ==
    /\ pc["t1"] = "expire_ts"
    /\ timestamps' = DictDel(timestamps, local["t1"].horse_id)
    /\ locks' = [locks EXCEPT !.cache_lock = "none"]
    /\ pc' = [pc EXCEPT !["t1"] = "miss"]
    /\ UNCHANGED <<db, cache, max_size, enable_indexing, jockey_index, age_index,
                   win_ratio_index, now, latest, last_used, treevars, boardvars,
                   local, ret>>

\* LRUCache.get: `self.cache.move_to_end(key)`
Get_move ==
    /\ pc["t1"] = "move"
    /\ LET key == local["t1"].horse_id
       IN IF key \notin CacheKeys(cache)
          THEN /\ local' = [local EXCEPT !["t1"] = Raised(@)]
               /\ pc' = [pc EXCEPT !["t1"] = "done"]
               /\ locks' = [locks EXCEPT !.cache_lock = "none"]
               /\ UNCHANGED cache
          ELSE /\ cache' = move_to_end(cache, key)
               /\ pc' = [pc EXCEPT !["t1"] = "read"]
               /\ UNCHANGED <<local, locks>>
    /\ UNCHANGED <<db, timestamps, max_size, enable_indexing, jockey_index, age_index,
                   win_ratio_index, now, latest, last_used, treevars, boardvars, ret>>

\* LRUCache.get: `return self.cache[key]`, and get_horse returns its copy
Get_read ==
    /\ pc["t1"] = "read"
    /\ LET key == local["t1"].horse_id
       IN local' = [local EXCEPT !["t1"] =
                       IF key \notin CacheKeys(cache) THEN Raised(@)
                       ELSE Returned(@, <<cache[CacheValue(cache, key)].value>>)]
    /\ pc' = [pc EXCEPT !["t1"] = "done"]
    /\ locks' = [locks EXCEPT !.cache_lock = "none"]
    /\ UNCHANGED <<dbvars, treevars, boardvars, ret>>

\* get_horse after a miss: the section under the store's lock
Get_miss ==
    /\ pc["t1"] = "miss"
    /\ locks.lock = "none"
    /\ LET horse_id == local["t1"].horse_id
       IN IF horse_id \in DOMAIN db
          THEN LET c == LRUCache_put([cache |-> cache, timestamps |-> timestamps],
                                     horse_id, db[horse_id], now, max_size)
               IN /\ cache' = c.cache
                  /\ timestamps' = c.timestamps
                  /\ local' = [local EXCEPT !["t1"] = Returned(@, <<db[horse_id]>>)]
          ELSE /\ local' = [local EXCEPT !["t1"] = Returned(@, <<>>)]
               /\ UNCHANGED <<cache, timestamps>>
    /\ pc' = [pc EXCEPT !["t1"] = "done"]
    /\ UNCHANGED <<db, max_size, enable_indexing, jockey_index, age_index,
                   win_ratio_index, now, latest, last_used, treevars, boardvars,
                   locks, ret>>

\* t2 calls add_horse: the whole call, which needs both locks
Write_add ==
    \E horse_id \in HorseIds, data \in InputRecords :
        LET S1 == StoreOne(Store, horse_id, data, now, max_size, enable_indexing)
        IN /\ pc["t2"] = "idle"
           /\ locks.lock = "none"
           /\ locks.cache_lock = "none"
           /\ SetStore(S1)
           /\ latest' = [h \in DOMAIN latest \cup {horse_id} |->
                           IF h = horse_id THEN data ELSE latest[h]]
           /\ pc' = [pc EXCEPT !["t2"] = "done"]
           /\ local' = Witnessed([local EXCEPT !["t2"] =
                                     Call("add_horse", horse_id, {NoValue})],
                                 S1.db)
           /\ UNCHANGED <<max_size, enable_indexing, now, last_used, treevars,
                          boardvars, locks, ret>>

\* t2 calls update_performance: the whole call; for an id in db it needs both
\* locks
Write_update ==
    \E horse_id \in HorseIds, new_data \in InputRecords :
        /\ pc["t2"] = "idle"
        /\ locks.lock = "none"
        /\ IF horse_id \notin DOMAIN db
           THEN /\ local' = [local EXCEPT !["t2"] =
                                Returned(Call("update_performance", horse_id, BOOLEAN),
                                         FALSE)]
                /\ UNCHANGED <<db, cache, timestamps, jockey_index, age_index,
                               win_ratio_index, latest>>
           ELSE LET S1 == UpdateOne(Store, horse_id, new_data, now, max_size,
                                    enable_indexing)
                IN /\ locks.cache_lock = "none"
                   /\ SetStore(S1)
                   /\ latest' = [latest EXCEPT ![horse_id] = S1.db[horse_id]]
                   /\ local' = Witnessed([local EXCEPT !["t2"] =
                                             Returned(Call("update_performance", horse_id,
                                                           BOOLEAN), TRUE)],
                                         S1.db)
        /\ pc' = [pc EXCEPT !["t2"] = "done"]
        /\ UNCHANGED <<max_size, enable_indexing, now, last_used, treevars, boardvars,
                       locks, ret>>

\* t2 calls remove_horse: it takes the store's lock, and for an id in db
\* `del self.db[horse_id]` is its first write; value keeps old_data
Write_remove_db ==
    \E horse_id \in HorseIds :
        LET l == Call("remove_horse", horse_id, BOOLEAN)
        IN /\ pc["t2"] = "idle"
           /\ locks.lock = "none"
           /\ IF horse_id \notin DOMAIN db
              THEN /\ pc' = [pc EXCEPT !["t2"] = "done"]
                   /\ local' = [local EXCEPT !["t2"] = Returned(l, FALSE)]
                   /\ UNCHANGED <<db, locks, latest>>
              ELSE /\ db' = DictDel(db, horse_id)
                   /\ latest' = [h \in DOMAIN latest \ {horse_id} |-> latest[h]]
                   /\ locks' = [locks EXCEPT !.lock = "t2"]
                   /\ pc' = [pc EXCEPT !["t2"] = "pop_cache"]
                   /\ local' = Witnessed([local EXCEPT !["t2"] =
                                             Returned(l, db[horse_id])],
                                         DictDel(db, horse_id))
           /\ UNCHANGED <<cache, timestamps, max_size, enable_indexing, jockey_index,
                          age_index, win_ratio_index, now, last_used, treevars,
                          boardvars, ret>>

\* remove_horse, self.cache._remove without the cache's lock:
\* `self.cache.pop(key, None)`
Write_pop_cache ==
    /\ pc["t2"] = "pop_cache"
    /\ cache' = WithoutKey(cache, local["t2"].horse_id)
    /\ pc' = [pc EXCEPT !["t2"] = "pop_ts"]
    /\ UNCHANGED <<db, timestamps, max_size, enable_indexing, jockey_index, age_index,
                   win_ratio_index, now, latest, last_used, treevars, boardvars,
                   locks, local, ret>>

\* _remove: `self.timestamps.pop(key, None)`; then _remove_from_indexes, the
\* store's lock is released and remove_horse returns True
Write_pop_ts ==
    /\ pc["t2"] = "pop_ts"
    /\ LET horse_id == local["t2"].horse_id
           S1 == [Store EXCEPT !.c.timestamps = DictDel(@, horse_id)]
       IN SetStore(IF enable_indexing
                   THEN remove_from_indexes(S1, horse_id, local["t2"].value)
                   ELSE S1)
    /\ locks' = [locks EXCEPT !.lock = "none"]
    /\ pc' = [pc EXCEPT !["t2"] = "done"]
    /\ local' = [local EXCEPT !["t2"] = Returned(@, TRUE)]
    /\ UNCHANGED <<max_size, enable_indexing, now, latest, last_used, treevars,
                   boardvars, ret>>

(***************************************************************************)
(* add_result and update_horse_time called by both threads on one          *)
(* OptimizedLeaderboard.  Each runs wholly under self.lock; the steps are  *)
(* the test and the writes of the section.                                 *)
(***************************************************************************)
\* a thread calls add_result(horse_id, time) or update_horse_time(horse_id, time),
\* for the id the other thread's call is about if there is one; what the
\* calls before it returned is dropped
Writer_call ==
    \E t \in Threads, op \in {"add_result", "update_horse_time"},
       horse_id \in Runners, time \in Times :
        /\ pc[t] = "idle"
        /\ lb_cls = "OptimizedLeaderboard"
        /\ \A u \in Threads \ {t} :
               IF pc[u] = "idle" THEN TRUE ELSE local[u].horse_id = horse_id
        /\ pc' = [pc EXCEPT ![t] = "acquire"]
        /\ local' = [local EXCEPT ![t] =
                        [op |-> op, horse_id |-> horse_id, time |-> time,
                         branch |-> "none", raised |-> FALSE, value |-> NoValue]]
        /\ ret' = Ret("init", <<>>, TRUE, TRUE, FALSE, NoValue)
        /\ UNCHANGED <<dbvars, treevars, boardvars, locks>>

\* a `with self.lock` that does not wait for the lock to be free
Writer_acquire_NoWait ==
    \E t \in Threads :
        /\ pc[t] = "acquire"
        /\ locks' = [locks EXCEPT !.lock = t]
        /\ pc' = [pc EXCEPT ![t] = "test"]
        /\ UNCHANGED <<dbvars, treevars, boardvars, local, ret>>

\* `with self.lock`: the thread enters when no other thread holds the lock
Writer_acquire ==
    \E t \in Threads :
        /\ pc[t] = "acquire"
        /\ locks.lock = "none"
        /\ locks' = [locks EXCEPT !.lock = t]
        /\ pc' = [pc EXCEPT ![t] = "test"]
        /\ UNCHANGED <<dbvars, treevars, boardvars, local, ret>>

\* the tests of _add_result_internal and of update_horse_time:
\* `horse_id not in self.entries`, then `time < self.horse_times[horse_id]`;
\* update_horse_time returns False when it has nothing to write
Writer_test ==
    \E t \in Threads :
        LET l == local[t]
            branch == IF l.horse_id \notin entries THEN "new"
                      ELSE IF l.time < TimeOf(horse_times, l.horse_id) THEN "improve"
                      ELSE "keep"
        IN /\ pc[t] = "test"
           /\ submitted' = IF l.op = "update_horse_time" /\ branch = "new"
                           THEN submitted
                           ELSE Submit(submitted, l.horse_id, l.time)
           /\ IF l.op = "update_horse_time" /\ branch # "improve"
              THEN /\ pc' = [pc EXCEPT ![t] = "done"]
                   /\ local' = [local EXCEPT ![t] = [l EXCEPT !.branch = branch,
                                                              !.value = FALSE]]
                   /\ locks' = [locks EXCEPT !.lock = "none"]
              ELSE /\ pc' = [pc EXCEPT ![t] = "write"]
                   /\ local' = [local EXCEPT ![t].branch = branch]
                   /\ UNCHANGED locks
           /\ UNCHANGED <<lb_cls, heap, entries, horse_times, cache_top_k,
                          cached_top_results, heap_cache_valid, enable_range_queries,
                          sorted_times, sorted_valid, dbvars, treevars, ret>>

\* the writes of the branch the test chose, _invalidate_caches, and the lock
\* is released
Writer_write ==
    \E t \in Threads :
        LET l == local[t]
            B1 == IF l.branch = "new"
                  THEN [Board EXCEPT !.heap = heappush(@, <<l.time, l.horse_id>>),
                                     !.entries = @ \cup {l.horse_id},
                                     !.horse_times = TimesSet(@, l.horse_id, l.time)]
                  ELSE IF l.branch = "improve"
                  THEN LET B2 == [Board EXCEPT
                                     !.horse_times = TimesSet(@, l.horse_id, l.time)]
                       IN IF l.op = "add_result"
                          THEN mark_heap_dirty(B2, enable_range_queries)
                          ELSE B2
                  ELSE Board
        IN /\ pc[t] = "write"
           /\ SetBoard(invalidate_caches(B1, enable_range_queries))
           /\ locks' = [locks EXCEPT !.lock = "none"]
           /\ pc' = [pc EXCEPT ![t] = "done"]
           /\ local' = [local EXCEPT ![t].value =
                           IF l.op = "update_horse_time" THEN TRUE ELSE NoValue]
           /\ UNCHANGED <<lb_cls, cache_top_k, enable_range_queries, submitted,
                          dbvars, treevars, ret>>

(***************************************************************************)
(* Specifications.                                                         *)
(***************************************************************************)
\* nothing has been called yet and no thread is inside a call
InitRet ==
    /\ ret = Ret("init", <<>>, TRUE, TRUE, FALSE, NoValue)
    /\ pc = [t \in Threads |-> "idle"]
    /\ locks = [lock |-> "none", cache_lock |-> "none"]
    /\ local = [t \in Threads |-> NoLocal]

NextStore ==
    \/ add_horse
    \/ add_horses_bulk
    \/ get_horse
    \/ update_performance
    \/ remove_horse

NextOLB ==
    \/ OLB_add_result
    \/ OLB_add_results_bulk
    \/ OLB_update_horse_time
    \/ OLB_remove_horse
    \/ OLB_get_top_performers
    \/ OLB_get_top_performers_in_time_range
    \/ OLB_get_horse_rank
    \/ OLB_get_horse_rank_optimized
    \/ OLB_get_all_results
    \/ OLB_size
    \/ OLB_get_percentile_stats
    \/ OLB_compact

NextBoard ==
    \/ NextOLB
    \/ LB_add_result
    \/ LB_remove_horse
    \/ LB_get_horse_rank
    \/ LB_get_all_results

NextTree ==
    \/ Opt_insert
    \/ Opt_insert_bulk
    \/ Opt_get_range
    \/ Opt_get_kth_smallest
    \/ Opt_get_rank
    \/ AVL_insert
    \/ AVL_get_range
    \/ AVL_get_sorted_list

\* the store with its indexes, the clock standing still
InitStore == InitDB(BOOLEAN) /\ InitTree({"none"}) /\ InitBoard({"none"}, {0}) /\ InitRet

SpecStore == InitStore /\ [][NextStore]_vars

\* the store and its cache while time passes, indexing off
InitClock == InitDB({FALSE}) /\ InitTree({"none"}) /\ InitBoard({"none"}, {0}) /\ InitRet

SpecClock == InitClock /\ [][NextStore \/ Tick]_vars

\* the cache on its own while time passes
NextLRU ==
    \/ Cache_put
    \/ Cache_get
    \/ Tick

SpecLRU == InitClock /\ [][NextLRU]_vars

\* the store and a caller that changes the records get_horse hands out
SpecCaller == InitClock /\ [][NextStore \/ mutate_returned]_vars

\* a tree of either class
InitTrees ==
    /\ InitDB({TRUE}) /\ max_size = 1
    /\ InitTree({"OptimizedAVLTree", "AVLTree"})
    /\ InitBoard({"none"}, {0})
    /\ InitRet

SpecTree == InitTrees /\ [][NextTree]_vars

\* a leaderboard of either class, every top result cached
InitBoards ==
    /\ InitDB({TRUE}) /\ max_size = 1
    /\ InitTree({"none"})
    /\ InitBoard({"OptimizedLeaderboard", "Leaderboard"}, {Len(IdOrder)})
    /\ InitRet

SpecBoard == InitBoards /\ [][NextBoard]_vars

\* an optimized leaderboard with any cache_top_k, without the sorted list
InitTopK ==
    /\ InitDB({TRUE}) /\ max_size = 1
    /\ InitTree({"none"})
    /\ InitBoard({"OptimizedLeaderboard"}, TopKs)
    /\ ~enable_range_queries
    /\ InitRet

SpecTopK == InitTopK /\ [][NextOLB]_vars

\* an optimized leaderboard that is set up by calls made one at a time, and
\* then called by t1 for a rank while t2 removes a horse
NextRankRace ==
    \/ Quiet /\ NextOLB
    \/ Rank_check_entries
    \/ Rank_delegated
    \/ Rank_locked
    \/ Remove_entries
    \/ Remove_del_times
    \/ T_finish

InitRankRace ==
    /\ InitDB({TRUE}) /\ max_size = 1
    /\ InitTree({"none"})
    /\ InitBoard({"OptimizedLeaderboard"}, {Len(IdOrder)})
    /\ InitRet

SpecRankRace == InitRankRace /\ [][NextRankRace]_vars

\* a store that t1 reads while t2 writes; the clock advances between calls
NextStoreRace ==
    \/ Quiet /\ Tick
    \/ Get_in_cache
    \/ Get_ttl
    \/ Get_expire_cache
    \/ Get_expire_ts
    \/ Get_move
    \/ Get_read
    \/ Get_miss
    \/ Write_add
    \/ Write_update
    \/ Write_remove_db
    \/ Write_pop_cache
    \/ Write_pop_ts
    \/ T_finish

SpecStoreRace == InitClock /\ [][NextStoreRace]_vars

\* an optimized leaderboard that both threads write to, and that is read
\* when no thread is inside a call
NextWriters ==
    \/ Writer_call
    \/ Writer_acquire
    \/ Writer_test
    \/ Writer_write
    \/ T_finish
    \/ Quiet /\ (OLB_get_top_performers \/ OLB_get_horse_rank)

SpecWriters == InitRankRace /\ [][NextWriters]_vars

Init ==
    /\ InitDB(BOOLEAN)
    /\ InitTree({"OptimizedAVLTree", "AVLTree"})
    /\ InitBoard({"OptimizedLeaderboard", "Leaderboard"}, TopKs)
    /\ InitRet

Next == NextStore \/ NextLRU \/ mutate_returned \/ NextTree \/ NextBoard

Spec == Init /\ [][Next]_vars

(***************************************************************************)
(* Properties of the store.                                                *)
(***************************************************************************)

\* C1: get_horse(id) returns the record the latest add_horse /
\* update_performance produced for id, and None when id was never added or
\* was removed since, whether it is answered from the cache or from db.
C1_CacheCoherent ==
    ret.op = "get_horse" =>
        LET id == ret.args[1]
        IN IF id \in DOMAIN latest
           THEN ~ret.none /\ ret.value = latest[id]
           ELSE ret.none

\* a get_horse answered from db after a miss returns a record merged by
\* update_performance
C1_Witness ==
    /\ ret.op = "get_horse"
    /\ ~ret.none
    /\ ~ret.hit
    /\ ret.value = [jockey |-> "Smith", age |-> 4, wins |-> 1, races |-> 2]

\* C2: with indexing enabled, every id in the store whose record has a jockey
\* (an age) is returned by find_horses_by_jockey (find_horses_by_age) of that
\* value.
C2_IndexComplete ==
    enable_indexing =>
        \A id \in DOMAIN db :
            /\ "jockey" \in DOMAIN db[id] => id \in find_horses_by_jockey(db[id]["jockey"])
            /\ "age" \in DOMAIN db[id] => id \in find_horses_by_age(db[id]["age"])

\* C3: with indexing enabled, every id an index bucket holds is in the store
\* and its current record has that value in the indexed field.
C3_IndexSound ==
    enable_indexing =>
        /\ \A v \in DOMAIN jockey_index : \A id \in find_horses_by_jockey(v) :
              /\ id \in DOMAIN db
              /\ "jockey" \in DOMAIN db[id]
              /\ db[id]["jockey"] = v
        /\ \A v \in DOMAIN age_index : \A id \in find_horses_by_age(v) :
              /\ id \in DOMAIN db
              /\ "age" \in DOMAIN db[id]
              /\ db[id]["age"] = v

\* C4: after remove_horse(id) returned True, id is in neither the backing map
\* nor the cache nor any bucket of any secondary index.
C4_RemoveClean ==
    (ret.op = "remove_horse" /\ ret.ok) =>
        LET id == ret.args[1]
        IN /\ id \notin DOMAIN db
           /\ id \notin CacheKeys(cache)
           /\ id \notin DOMAIN timestamps
           /\ enable_indexing =>
                /\ \A v \in DOMAIN jockey_index : id \notin jockey_index[v]
                /\ \A v \in DOMAIN age_index : id \notin age_index[v]
                /\ \A v \in DOMAIN win_ratio_index : id \notin win_ratio_index[v]

(***************************************************************************)
(* Properties of the trees.                                                *)
(***************************************************************************)
RECURSIVE Subtrees(_)
Subtrees(t) == IF t = None THEN {} ELSE {t} \cup Subtrees(t.left) \cup Subtrees(t.right)

RECURSIVE Size(_)
Size(t) == IF t = None THEN 0 ELSE 1 + Size(t.left) + Size(t.right)

StoredHeight(t) == IF t = None THEN 0 ELSE t.height

SeqSet(s) == {s[i] : i \in 1..Len(s)}

\* the sequence s lists the elements of the set S, each once
ExactlyOnce(s, S) == SeqSet(s) = S /\ Len(s) = Cardinality(S)

\* the entries the inserts so far have left stored
Stored == {<<last_id_at[v], v>> : v \in DOMAIN last_id_at}

\* C5: every node's stored height is 1 + max of its children's heights and
\* its balance factor is -1, 0 or 1, in a tree of either class.
C5_AVLInvariant ==
    \A n \in Subtrees(root) :
        /\ n.height = 1 + Max(StoredHeight(n.left), StoredHeight(n.right))
        /\ StoredHeight(n.left) - StoredHeight(n.right) \in {-1, 0, 1}

\* a tree of height 3 over at least five metrics
C5_Witness == Size(root) >= 5 /\ root.height = 3

\* what get_range computes on the current tree
RangeOf(min_val, max_val) ==
    IF cls = "AVLTree" THEN AVL_range_search(root, min_val, max_val)
    ELSE Opt_range_query(root, min_val, max_val)

\* a linear scan over all the nodes of the tree
LinearScan(min_val, max_val) ==
    {<<n.horse_id, n.value>> : n \in {m \in Subtrees(root) : min_val <= m.value /\ m.value <= max_val}}

\* C6: for min <= max, get_range(min, max) returns exactly the entries of the
\* tree with min <= metric <= max, each once: what get_range returned, and
\* what the pruned traversal computes for every range over the metrics.
C6_RangeCorrect ==
    /\ (ret.op = "get_range" /\ ret.args[1] <= ret.args[2]) =>
           ExactlyOnce(ret.value, LinearScan(ret.args[1], ret.args[2]))
    /\ \A lo \in 0..(MaxMetric + 1), hi \in 0..(MaxMetric + 1) :
           lo <= hi => ExactlyOnce(RangeOf(lo, hi), LinearScan(lo, hi))

\* get_range(2, 3) of the optimized tree returned two of at least four entries
C6_Witness ==
    /\ cls = "OptimizedAVLTree"
    /\ ret.op = "get_range"
    /\ ret.args = <<2, 3>>
    /\ Len(ret.value) = 2
    /\ Size(root) >= 4

\* C7: after AVLTree.insert(id, m) the sorted list holds exactly one entry for
\* id, and it carries m.
C7_ReinsertUpdates ==
    (cls = "AVLTree" /\ ret.op = "insert") =>
        LET id == ret.args[1]
            m == ret.args[2]
            sorted_list == AVL_inorder_traversal(root)
        IN /\ {e \in SeqSet(sorted_list) : e[1] = id} = {<<id, m>>}
           /\ Cardinality({i \in 1..Len(sorted_list) : sorted_list[i][1] = id}) = 1

IsBST(t) ==
    \A n \in Subtrees(t) :
        /\ \A m \in Subtrees(n.left) : m.value < n.value
        /\ \A m \in Subtrees(n.right) : m.value > n.value

\* C9: the tree keeps the search-tree ordering, and get_sorted_list returns
\* every stored entry exactly once in strictly ascending metric order.
C9_SortedList ==
    cls = "AVLTree" =>
        /\ IsBST(root)
        /\ ret.op = "get_sorted_list" =>
              /\ ExactlyOnce(ret.value, Stored)
              /\ \A i \in 1..(Len(ret.value) - 1) : ret.value[i][2] < ret.value[i + 1][2]

\* get_sorted_list returned five entries
C9_Witness == cls = "AVLTree" /\ ret.op = "get_sorted_list" /\ Len(ret.value) >= 5

\* C10: get_kth_smallest(k) returns the k-th entry of the ascending order of
\* the stored entries for k in 1..n, and None for every other k.
C10_KthSmallest ==
    ret.op = "get_kth_smallest" =>
        LET k == ret.args[1]
            D == DOMAIN last_id_at
        IN IF 1 <= k /\ k <= Cardinality(D)
           THEN /\ ~ret.none
                /\ \E v \in D : /\ Cardinality({u \in D : u < v}) = k - 1
                                /\ ret.value = <<last_id_at[v], v>>
           ELSE ret.none

\* get_kth_smallest(3) returned an entry of a tree of at least four
C10_Witness ==
    /\ ret.op = "get_kth_smallest"
    /\ ret.args = <<3>>
    /\ ~ret.none
    /\ Size(root) >= 4

\* C11: get_rank(value) returns the number of stored entries whose metric is
\* strictly less than value, for values in the tree and values not in it.
C11_RankCounts ==
    /\ ret.op = "get_rank" =>
           ret.value = Cardinality({n \in Subtrees(root) : n.value < ret.args[1]})
    /\ cls = "OptimizedAVLTree" =>
           \A value \in 0..(MaxMetric + 1) :
               Opt_count_less_than(root, value) =
                   Cardinality({v \in DOMAIN last_id_at : v < value})

\* get_rank of a metric that is in the tree found three smaller entries, one
\* of them in the left subtree of a smaller node
C11_Witness ==
    /\ ret.op = "get_rank"
    /\ ret.args[1] \in DOMAIN last_id_at
    /\ ret.value = 3
    /\ root.value < ret.args[1]
    /\ root.left # None

\* C12: get_range(min, max) with min > max returns the empty list, on either
\* path of the range cache, and leaves the tree as it was; on the tree it was
\* called on, the traversal finds nothing for any range with min > max.
C12_InvalidRangeEmpty ==
    [][(ret'.op = "get_range" /\ ret'.args[1] > ret'.args[2]) =>
           /\ ret'.value = <<>>
           /\ root' = root
           /\ last_id_at' = last_id_at
           /\ \A lo \in 0..(MaxMetric + 1), hi \in 0..(MaxMetric + 1) :
                  lo > hi => RangeOf(lo, hi) = <<>>]_vars

\* get_range(4, 2) of the optimized tree returned the empty list on a tree
\* that holds 2, 3 and 4
C12_Witness ==
    /\ cls = "OptimizedAVLTree"
    /\ ret.op = "get_range"
    /\ ret.args = <<4, 2>>
    /\ ret.value = <<>>
    /\ {2, 3, 4} \subseteq DOMAIN last_id_at

(***************************************************************************)
(* Properties of the leaderboards.                                         *)
(***************************************************************************)

\* C13: every id on the leaderboard has exactly one entry, and its stored
\* time is the lowest time submitted for it by add_result, add_results_bulk
\* or update_horse_time since it was (last) added, in both leaderboard
\* classes; get_all_results returns each id once with that time.
C13_BestTimeIsMinimum ==
    /\ entries = DOMAIN submitted
    /\ TimesKeys(horse_times) = DOMAIN submitted
    /\ Len(horse_times) = Cardinality(DOMAIN submitted)
    /\ \A h \in DOMAIN submitted : TimeOf(horse_times, h) = submitted[h]
    /\ ret.op = "get_all_results" =>
           ExactlyOnce(ret.value, {<<submitted[h], h>> : h \in DOMAIN submitted})

\* update_horse_time handed H1 a time that is not lower than its best time,
\* and H1 keeps its best time of 1
C13_Witness ==
    /\ ret.op = "update_horse_time"
    /\ ret.args = <<"H1">>
    /\ ~ret.ok
    /\ "H1" \in entries
    /\ TimeOf(horse_times, "H1") = 1
    /\ Cardinality(entries) = 2

\* the current id -> best-time mapping, as the history has it
BestTimes == {<<h, submitted[h]>> : h \in DOMAIN submitted}

\* v is the first n entries of the mapping sorted by (time, id): n of them
\* or all, each a current (id, time), in ascending order, none of the
\* entries left out coming before one taken
IsTopN(v, n) ==
    /\ Len(v) = (IF n <= Cardinality(BestTimes) THEN n ELSE Cardinality(BestTimes))
    /\ \A i \in 1..Len(v) : v[i] \in BestTimes
    /\ \A i \in 1..Len(v), j \in 1..Len(v) :
           i < j => TupleLess(<<v[i][2], v[i][1]>>, <<v[j][2], v[j][1]>>)
    /\ \A e \in BestTimes \ SeqSet(v) :
           \A i \in 1..Len(v) : TupleLess(<<v[i][2], v[i][1]>>, <<e[2], e[1]>>)

\* C14: get_top_performers(n) returns the min(n, size) entries with the
\* lowest current best times in ascending order, for n below, at and above
\* cache_top_k, whether it is answered from cached_top_results or not.
C14_TopPerformers ==
    ret.op = "get_top_performers" => IsTopN(ret.value, ret.args[1])

\* get_top_performers(1) was answered from a cached list of two, after an
\* earlier call had filled the cache
C14_Witness ==
    /\ ret.op = "get_top_performers"
    /\ ret.hit
    /\ ret.args = <<1>>
    /\ cache_top_k = 2
    /\ Len(cached_top_results.list) = 2
    /\ ret.value = << <<"H2", 1>> >>

\* C15: get_horse_rank(id) and get_horse_rank_optimized(id) of the optimized
\* leaderboard return -1 for an id that is not on the leaderboard, and
\* otherwise 1 + the number of other ids with a strictly lower best time.
C15_RankCountsBetter ==
    (lb_cls = "OptimizedLeaderboard"
       /\ ret.op \in {"get_horse_rank", "get_horse_rank_optimized"}) =>
        LET id == ret.args[1]
        IN ret.value =
               IF id \notin DOMAIN submitted THEN -1
               ELSE 1 + Cardinality({h \in DOMAIN submitted \ {id} :
                                        submitted[h] < submitted[id]})

\* get_horse_rank_optimized ranked H2 first while H1 has the same best time
C15_Witness ==
    /\ lb_cls = "OptimizedLeaderboard"
    /\ enable_range_queries
    /\ ret.op = "get_horse_rank_optimized"
    /\ ret.args = <<"H2">>
    /\ ret.value = 1
    /\ "H1" \in DOMAIN submitted
    /\ submitted["H1"] = submitted["H2"]

\* v is the first limit entries, in ascending time order, of the ids whose
\* best time lies in min_time..max_time: limit of them or all, each a current
\* (time, id), no id twice, none of the entries left out faster than one taken
IsRangeTop(v, min_time, max_time, limit) ==
    LET Q == {<<submitted[h], h>> : h \in {x \in DOMAIN submitted :
                  min_time <= submitted[x] /\ submitted[x] <= max_time}}
    IN /\ Len(v) = (IF limit <= Cardinality(Q) THEN limit ELSE Cardinality(Q))
       /\ \A i \in 1..Len(v) : v[i] \in Q
       /\ \A i \in 1..Len(v), j \in 1..Len(v) :
              i < j => v[i][1] <= v[j][1] /\ v[i][2] # v[j][2]
       /\ \A e \in Q \ SeqSet(v) : \A i \in 1..Len(v) : v[i][1] <= e[1]

\* C16: get_top_performers_in_time_range(min, max, limit) returns the first
\* limit entries, in ascending time order, of the ids whose current best
\* time lies in min..max, with range queries enabled and disabled.
C16_TimeRange ==
    ret.op = "get_top_performers_in_time_range" =>
        IsRangeTop(ret.value, ret.args[1], ret.args[2], ret.args[3])

\* with range queries enabled, the scan skipped H2 below the range and
\* returned H1, the one entry inside it
C16_Witness ==
    /\ enable_range_queries
    /\ ret.op = "get_top_performers_in_time_range"
    /\ ret.args = <<2, MaxTime, 1>>
    /\ ret.value = << <<2, "H1">> >>
    /\ "H2" \in DOMAIN submitted
    /\ submitted["H2"] = 1

\* C17: remove_horse(id) returns True iff id was on the leaderboard and takes
\* it off, and every read returns only ids that are on the leaderboard, each
\* with its current best time: get_top_performers, the time-range query and
\* get_all_results (which returns all of them), get_horse_rank (-1 exactly
\* for the ids that are off) and size.
C17_ReadsSeeWrites ==
    [][/\ ret'.op = "remove_horse" =>
              /\ ret'.ok = (ret'.args[1] \in DOMAIN submitted)
              /\ ret'.args[1] \notin entries'
       /\ ret'.op = "get_top_performers" =>
              \A i \in 1..Len(ret'.value) : ret'.value[i] \in BestTimes'
       /\ ret'.op \in {"get_top_performers_in_time_range", "get_all_results"} =>
              \A i \in 1..Len(ret'.value) :
                  <<ret'.value[i][2], ret'.value[i][1]>> \in BestTimes'
       /\ ret'.op = "get_all_results" =>
              Len(ret'.value) = Cardinality(DOMAIN submitted')
       /\ ret'.op \in {"get_horse_rank", "get_horse_rank_optimized"} =>
              (ret'.value = -1) = (ret'.args[1] \notin DOMAIN submitted')
       /\ ret'.op = "size" =>
              ret'.value = Cardinality(DOMAIN submitted')]_vars

\* get_all_results returned the one id left after a removal, while the heap,
\* not yet rebuilt, still holds the removed id
C17_Witness ==
    /\ lb_cls = "OptimizedLeaderboard"
    /\ ret.op = "get_all_results"
    /\ Len(ret.value) = 1
    /\ Len(heap) = 2
    /\ ~heap_cache_valid
    /\ \E i \in 1..Len(heap) : heap[i][2] \notin entries

(***************************************************************************)
(* Further properties of the store and of its cache.                       *)
(***************************************************************************)

\* C18: update_performance on an id that is not in the store returns False
\* and leaves db, the cache with its timestamps and the three indexes as
\* they were; HorseDatabase.update_performance returns the dict unchanged.
C18_UpdateAbsentIsNoOp ==
    [][(ret'.op = "update_performance" /\ ret'.args[1] \notin DOMAIN db) =>
           /\ ~ret'.ok
           /\ db' = db
           /\ cache' = cache
           /\ timestamps' = timestamps
           /\ jockey_index' = jockey_index
           /\ age_index' = age_index
           /\ win_ratio_index' = win_ratio_index
           /\ \A new_data \in InputRecords :
                  HorseDatabase_update_performance(db, ret'.args[1], new_data) = db]_vars

\* update_performance of H2 returned False while H1 is stored, cached and
\* indexed
C18_Witness ==
    /\ ret.op = "update_performance"
    /\ ret.args = <<"H2">>
    /\ ~ret.ok
    /\ DOMAIN db = {"H1"}
    /\ CacheKeys(cache) = {"H1"}
    /\ enable_indexing
    /\ jockey_index # <<>>

\* the least recently used of the keys in the cache
LRUKey ==
    last_used[CHOOSE i \in 1..Len(last_used) :
                 /\ last_used[i] \in CacheKeys(cache)
                 /\ \A j \in 1..(i - 1) : last_used[j] \notin CacheKeys(cache)]

\* C19: the cache never holds more than max_size entries; a put of a key that
\* is not cached, at capacity, evicts exactly the key whose most recent
\* successful get or put is the oldest; a put of a cached key evicts nothing.
C19_LRUPolicy ==
    [][now' = now =>
           /\ Len(cache') <= max_size
           /\ ret'.op = "put" =>
                  LET k == ret'.args[1]
                      K == CacheKeys(cache)
                  IN CacheKeys(cache') =
                         IF k \in K THEN K
                         ELSE IF Len(cache) >= max_size THEN (K \ {LRUKey}) \cup {k}
                         ELSE K \cup {k}]_vars

\* put(H3) on a full cache of two evicted H2 and kept H1, which was used
\* after H2
C19_Witness ==
    /\ ret.op = "put"
    /\ ret.args = <<"H3">>
    /\ max_size = 2
    /\ CacheKeys(cache) = {"H1", "H3"}
    /\ last_used = <<"H2", "H1", "H3">>

\* C20: a get_horse(id) issued when the cached entry of id is older than
\* ttl_seconds is not answered from the cache: for an id in db it returns
\* db's record and leaves the cache holding that record under a timestamp of
\* now; and a put of a key that is cached sets its timestamp to now.
C20_TTLExpiry ==
    [][now' = now =>
           /\ (/\ ret'.op = "get_horse"
               /\ ret'.args[1] \in CacheKeys(cache)
               /\ now - timestamps[ret'.args[1]] > ttl_seconds) =>
                  LET id == ret'.args[1]
                  IN /\ ~ret'.hit
                     /\ id \in DOMAIN db =>
                            /\ ~ret'.none
                            /\ ret'.value = db[id]
                            /\ id \in CacheKeys(cache')
                            /\ cache'[CacheValue(cache', id)].value = db[id]
                            /\ timestamps'[id] = now
                     /\ id \notin DOMAIN db =>
                            /\ ret'.none
                            /\ id \notin CacheKeys(cache')
           /\ \A k \in CacheKeys(cache) :
                  LRUCache_put([cache |-> cache, timestamps |-> timestamps],
                               k, NoValue, now, max_size).timestamps[k] = now]_vars

\* get_horse(H1) missed at time 301 on a cache of two that holds H1 and H2
\* since time 0, and H1 is cached again under the timestamp 301
C20_Witness ==
    /\ ret.op = "get_horse"
    /\ ret.args = <<"H1">>
    /\ ~ret.hit
    /\ ~ret.none
    /\ max_size = 2
    /\ now = ttl_seconds + 1
    /\ CacheKeys(cache) = {"H1", "H2"}
    /\ timestamps["H1"] = now
    /\ timestamps["H2"] = 0

(***************************************************************************)
(* Algebraic, frame and agreement properties of the store.                 *)
(***************************************************************************)
\* the jockeys and the ages that occur in the records
Jockeys == {"Smith", "Jones"}

Ages == {4}

\* what get_horse(horse_id) would return now: <<record>>, or <<>> for None
get_horse_result(horse_id) ==
    LET g == LRUCache_get([cache |-> cache, timestamps |-> timestamps], horse_id, now)
    IN IF ~g.none THEN <<g.value>>
       ELSE IF horse_id \in DOMAIN db THEN <<db[horse_id]>>
       ELSE <<>>

\* the results of the queries of the store in the current state
Queries ==
    [get_horse |-> [h \in HorseIds |-> get_horse_result(h)],
     find_horses_by_jockey |-> [j \in Jockeys |-> find_horses_by_jockey(j)],
     find_horses_by_age |-> [a \in Ages |-> find_horses_by_age(a)],
     list_horses |-> DOMAIN db,
     len |-> Cardinality(DOMAIN db)]

\* C21: an add_horse(id, r) that repeats the add_horse(id, r) before it
\* changes the result of no query: get_horse of every id, find_horses_by_jockey
\* of every jockey, find_horses_by_age of every age, list_horses and len.
C21_InsertIdempotent ==
    [][(ret'.op = "add_horse" /\ ret'.args[3]) => Queries' = Queries]_vars

\* add_horse(H1, r) was called twice in a row, with a record that is indexed
\* by jockey and by age, on a store that holds another horse as well
C21_Witness ==
    /\ ret.op = "add_horse"
    /\ ret.args[1] = "H1"
    /\ "age" \in DOMAIN ret.args[2]
    /\ ret.args[3]
    /\ enable_indexing
    /\ DOMAIN db = {"H1", "H2"}
    /\ find_horses_by_jockey("Jones") = {"H1"}

\* C26: every key of the LRU cache is a key of db, the cached record equals
\* db's record of that key, and the cache's entry map and its timestamp map
\* have the same keys.
C26_CacheWithinStore ==
    /\ \A i \in 1..Len(cache) :
           /\ cache[i].key \in DOMAIN db
           /\ cache[i].value = db[cache[i].key]
    /\ CacheKeys(cache) = DOMAIN timestamps

\* update_performance changed the record of a horse in a store of two whose
\* cache of one now holds the changed record, put after the clock advanced
C26_Witness ==
    /\ ret.op = "update_performance"
    /\ ret.ok
    /\ max_size = 1
    /\ DOMAIN db = {"H1", "H2"}
    /\ now > 0
    /\ Len(cache) = 1
    /\ cache[1].key = ret.args[1]
    /\ "age" \in DOMAIN cache[1].value
    /\ timestamps[cache[1].key] = now

\* C24: a caller that changes the fields of a record get_horse returned, from
\* the cache or from db on a miss, changes what get_horse returns for no id.
C24_ReturnsCopy ==
    [][ret'.op = "mutate_returned" =>
           \A h \in HorseIds : get_horse_result(h)' = get_horse_result(h)]_vars

\* what the store answers with indexing off: the scan of db
scan_by_jockey(jockey) ==
    {hid \in DOMAIN db : "jockey" \in DOMAIN db[hid] /\ db[hid]["jockey"] = jockey}

scan_by_age(age) ==
    {hid \in DOMAIN db : "age" \in DOMAIN db[hid] /\ db[hid]["age"] = age}

\* C28: after the same calls of add_horse, add_horses_bulk, update_performance
\* and remove_horse, which leave the same db with indexing on and off,
\* find_horses_by_jockey(j) and find_horses_by_age(a) of the indexed store
\* are the sets of ids the store without indexes returns, for every j and a.
C28_ConfigsAgree ==
    enable_indexing =>
        /\ \A j \in Jockeys : find_horses_by_jockey(j) = scan_by_jockey(j)
        /\ \A a \in Ages : find_horses_by_age(a) = scan_by_age(a)

(***************************************************************************)
(* The range cache of OptimizedAVLTree.                                    *)
(***************************************************************************)
\* C27: get_range(min, max) of OptimizedAVLTree returns what a traversal of
\* the current tree returns, whether or not it is answered from range_cache;
\* every entry of range_cache that can be served is such a result; and after
\* every insert and insert_bulk range_cache is empty and cache_valid is false.
C27_RangeCacheFresh ==
    cls = "OptimizedAVLTree" =>
        /\ ret.op = "get_range" =>
               ret.value = Opt_range_query(root, ret.args[1], ret.args[2])
        /\ cache_valid =>
               \A k \in DOMAIN range_cache :
                   range_cache[k] = Opt_range_query(root, k[1], k[2])
        /\ ret.op \in {"insert", "insert_bulk"} =>
               /\ range_cache = <<>>
               /\ ~cache_valid

\* get_range(2, 3) was answered from a range_cache that holds both ranges
C27_Witness ==
    /\ cls = "OptimizedAVLTree"
    /\ ret.op = "get_range"
    /\ ret.args = <<2, 3>>
    /\ ret.hit
    /\ Len(ret.value) = 2
    /\ DOMAIN range_cache = RangeArgs
    /\ Size(root) >= 4

(***************************************************************************)
(* Derived state of the leaderboards.                                      *)
(***************************************************************************)
\* the first k entries of horse_times in (time, id) order, as (id, time)
CurrentTop(k) == IdTimePairs(Take(SortTuples(TimeIdPairs(horse_times)), k))

\* s is in ascending order of the times of its (id, time) entries
AscendingByTime(s) == \A i \in 1..Len(s), j \in 1..Len(s) : i < j => s[i][2] <= s[j][2]

\* C25: in OptimizedLeaderboard entries is the key set of horse_times; while
\* cache_valid is true the heap holds exactly the pairs (time, id) of
\* horse_times; while sorted_valid is true sorted_times is horse_times in
\* ascending order of time; and while cached_top_results is not None it is
\* the current top cache_top_k.  In Leaderboard the heap holds exactly the
\* pairs of horse_times after every operation.
C25_DerivedState ==
    /\ lb_cls = "OptimizedLeaderboard" =>
           /\ entries = TimesKeys(horse_times)
           /\ Len(horse_times) = Cardinality(entries)
           /\ heap_cache_valid => ExactlyOnce(heap, SeqSet(TimeIdPairs(horse_times)))
           /\ (enable_range_queries /\ sorted_valid) =>
                  /\ ExactlyOnce(sorted_times, SeqSet(horse_times))
                  /\ AscendingByTime(sorted_times)
           /\ ~cached_top_results.none =>
                  cached_top_results.list = CurrentTop(cache_top_k)
    /\ lb_cls = "Leaderboard" =>
           /\ entries = TimesKeys(horse_times)
           /\ ExactlyOnce(heap, SeqSet(TimeIdPairs(horse_times)))

\* an optimized leaderboard of two whose heap, sorted list and cached top
\* results are all valid at once, after a read that followed a removal and a
\* new result
C25_Witness ==
    /\ lb_cls = "OptimizedLeaderboard"
    /\ ret.op = "get_top_performers"
    /\ ~ret.hit
    /\ heap_cache_valid
    /\ enable_range_queries /\ sorted_valid
    /\ ~cached_top_results.none
    /\ Len(horse_times) = 2
    /\ horse_times[1][1] = "H2"
    /\ TimeOf(horse_times, "H1") < TimeOf(horse_times, "H2")

\* C29: Leaderboard.get_horse_rank(id) returns what
\* OptimizedLeaderboard.get_horse_rank(id) returns on the same id -> best-time
\* mapping, for every id, ties in the best times included.
C29_RanksAgree ==
    (lb_cls = "Leaderboard" /\ ret.op = "get_horse_rank") =>
        ret.value = (IF ret.args[1] \notin TimesKeys(horse_times) THEN -1
                     ELSE better_count(horse_times,
                                       TimeOf(horse_times, ret.args[1])) + 1)

(***************************************************************************)
(* Properties of calls made by two threads at once.                        *)
(***************************************************************************)
\* C23: a get_horse_rank(id) or get_horse_rank_optimized(id) that runs while
\* another thread runs remove_horse returns -1 or a rank id had during the
\* call, and never raises.
C23_RankNeverRaises ==
    (pc["t1"] = "done" /\ local["t1"].op \in {"get_horse_rank", "get_horse_rank_optimized"}) =>
        /\ ~local["t1"].raised
        /\ local["t1"].value \in local["t1"].allowed

\* C22: a get_horse(id) that runs while another thread runs remove_horse,
\* add_horse or update_performance returns a record that was current at some
\* point during the call, or None, and never raises.
C22_GetNeverRaises ==
    (pc["t1"] = "done" /\ local["t1"].op = "get_horse") =>
        /\ ~local["t1"].raised
        /\ local["t1"].value \in local["t1"].allowed \cup {<<>>}

\* C30: when both threads call add_result or update_horse_time for one id,
\* no call that has returned is undone by the other: the id's best time is
\* at most the time of every finished add_result and successful
\* update_horse_time; whenever no thread is inside the locked section the
\* mapping holds each id once, with the minimum of the times submitted for
\* it; and a get_top_performers or get_horse_rank that follows answers from
\* those minima.
C30_NoLostImprovement ==
    /\ \A t \in Threads :
           (/\ pc[t] = "done"
            /\ IF local[t].op = "update_horse_time" THEN local[t].value ELSE TRUE) =>
               /\ local[t].horse_id \in TimesKeys(horse_times)
               /\ TimeOf(horse_times, local[t].horse_id) <= local[t].time
    /\ locks.lock = "none" =>
           /\ entries = DOMAIN submitted
           /\ TimesKeys(horse_times) = DOMAIN submitted
           /\ Len(horse_times) = Cardinality(DOMAIN submitted)
           /\ \A h \in DOMAIN submitted : TimeOf(horse_times, h) = submitted[h]
    /\ ret.op = "get_top_performers" => IsTopN(ret.value, ret.args[1])
    /\ ret.op = "get_horse_rank" =>
           ret.value = (IF ret.args[1] \notin DOMAIN submitted THEN -1
                        ELSE 1 + Cardinality({h \in DOMAIN submitted :
                                                 submitted[h] < submitted[ret.args[1]]}))

\* t2 submitted the time 1 for H1 and t1 the time 2; t1 entered the locked
\* section second, found the better time and kept it
C30_Witness ==
    /\ pc["t1"] = "done" /\ pc["t2"] = "done"
    /\ local["t1"].op = "add_result" /\ local["t2"].op = "add_result"
    /\ local["t1"].horse_id = "H1" /\ local["t2"].horse_id = "H1"
    /\ local["t1"].time = 2 /\ local["t2"].time = 1
    /\ local["t1"].branch = "keep"
    /\ local["t2"].branch = "new"
    /\ TimeOf(horse_times, "H1") = 1
    /\ Len(horse_times) = 2

====
